---------------------------- MODULE Spec2Model ----------------------------
(***************************************************************************)
(* Pipeline lifecycle manager of cyclone (pkg/server/manager/pipeline.go)  *)
(* together with the GitLab v3 SCM provider's webhook calls.               *)
(*                                                                         *)
(* Callers (Procs) run CreatePipeline, UpdatePipeline and DeletePipeline.  *)
(* A handler is a sequence of steps, one step per call that reads or       *)
(* writes state shared with other callers (the data store, the provider's  *)
(* hook list); everything a handler computes between two such calls is     *)
(* part of the step.  Every remote call may succeed or fail.               *)
(*                                                                         *)
(* Encoding.  A Go pointer that may be nil is a sequence: <<>> is nil,     *)
(* <<x>> points to x.  A pipeline identity is a natural number, 0 being    *)
(* the empty string.  A URL and a pipeline name are sequences of string    *)
(* segments (<<>> is the empty string), so that strings.HasPrefix is the   *)
(* prefix order on them.  AutoTrigger and AutoTrigger.SCMTrigger are one   *)
(* optional value: the code only ever tests them together.                 *)
(***************************************************************************)
EXTENDS Integers, Sequences, FiniteSets, TLC

\* ------------------------------------------------------------------ bounds

\* Handler calls made in one run.
MaxCalls == 3

\* The suffixes a random slug may draw.
RandSuffixes == {"x7", "q2"}

Procs == {1, 2}
Repos == {"r1", "r2"}
ScmTypes == {"Gitlab", "Github", "SVN"}
\* The SCM types of the project's configuration.
ProjectScmTypes == {"Gitlab", "SVN"}
ProjectID == "p1"

Nil == <<>>
Some(x) == <<x>>

\* --------------------------------------------------------------- errors

ErrValidationFailed == "ValidationFailed"
ErrAlreadyExist == "AlreadyExist"
ErrContentNotFound == "ContentNotFound"
ErrPermissionDenied == "CreateWebhookPermissionDenied"
ErrStore == "store error"
ErrProvider == "get provider failed"
ErrGitSource == "git source error"
ErrWebhookNotCorrect == "The webhook is not correct"
ErrSonar == "sonar error"
ErrDisk == "remove folder failed"
ErrKeyExists == "Could not create Project, key already exists"
NoErr == ""
Panic == "panic: nil pointer dereference"

\* Errors a remote SCM call may answer with.
RemoteErrs == {"403 Forbidden", "404 Not Found", "500 Internal Server Error"}

\* The first identity bson.NewObjectId() hands out.  Identities are opaque; the
\* numbering starts where their digits hold what a hexadecimal identity may hold.
FirstID == 403

\* The decimal digits of a natural number, one character each.
RECURSIVE Chars(_)
Chars(n) ==
    IF n < 10 THEN <<ToString(n)>> ELSE Append(Chars(n \div 10), ToString(n % 10))

\* The characters of one segment of a URL: a segment that is an identity is
\* split into its digits, any other segment holds no digit and is kept whole.
SegmentText(s) ==
    IF \E n \in 0..(FirstID + MaxCalls + 1) : ToString(n) = s
    THEN Chars(CHOOSE n \in 0..(FirstID + MaxCalls + 1) : ToString(n) = s)
    ELSE <<s>>

\* The characters of a URL.
RECURSIVE UrlText(_)
UrlText(url) ==
    IF url = <<>> THEN <<>> ELSE SegmentText(Head(url)) \o <<"/">> \o UrlText(Tail(url))

\* err.Error() of an error AddProjectHook answers with: the status, then words.
RemoteText(err) ==
    CASE err = "403 Forbidden" -> <<"4", "0", "3", " Forbidden">>
      [] err = "404 Not Found" -> <<"4", "0", "4", " Not Found">>
      [] err = "500 Internal Server Error" -> <<"5", "0", "0", " Internal Server Error">>
      [] OTHER -> <<err>>

\* fmt.Errorf("The webhook %v is not correct", webHook): the text holds the
\* URL of the webhook.
NotCorrectText(url) == <<"The webhook &{">> \o UrlText(url) \o <<" events} is not correct">>

\* strings.Contains(text, code), both as characters.
Contains(text, code) ==
    \E i \in 1..(Len(text) - Len(code) + 1) : SubSeq(text, i, i + Len(code) - 1) = code

\* ------------------------------------------------------------- strings

\* strings.HasPrefix
HasPrefix(s, prefix) ==
    /\ Len(prefix) <= Len(s)
    /\ SubSeq(s, 1, Len(prefix)) = prefix

\* strings.TrimSuffix(s, "/"): a trailing "/" is a trailing empty segment.
TrimSuffixSlash(s) ==
    IF Len(s) > 0 /\ s[Len(s)] = "" THEN SubSeq(s, 1, Len(s) - 1) ELSE s

\* strings.ToLower on the SCM type names.
ToLower(s) ==
    CASE s = "Gitlab" -> "gitlab"
      [] s = "Github" -> "github"
      [] s = "SVN" -> "svn"
      [] OTHER -> s

\* fmt.Sprintf("%swebhook", s)
WebhookSuffixed(s) ==
    CASE s = "gitlab" -> "gitlabwebhook"
      [] s = "github" -> "githubwebhook"
      [] s = "svn" -> "svnwebhook"
      [] s = "Gitlab" -> "Gitlabwebhook"
      [] s = "Github" -> "Githubwebhook"
      [] s = "SVN" -> "SVNwebhook"
      [] OTHER -> "webhook"

\* The value of the CallbackURL environment variable: "http://cyclone/".
CallbackEnv == <<"http://cyclone", "">>

\* A generateWebhookURL that keeps the case of the SCM type.
generateWebhookURL_NoLower(scmType, pipelineID) ==
    TrimSuffixSlash(CallbackEnv) \o <<ToString(pipelineID), WebhookSuffixed(scmType)>>

\* generateWebhookURL, lines 556-560.
generateWebhookURL(scmType, pipelineID) ==
    TrimSuffixSlash(CallbackEnv) \o <<ToString(pipelineID), WebhookSuffixed(ToLower(scmType))>>

\* slug.Slugify(alias, false, -1): the slug of an alias.
SlugOf(alias) ==
    CASE alias = "Build" -> "build"
      [] alias = "Deploy" -> "deploy"
      [] OTHER -> alias

\* slug.Slugify(s, random, -1) on a name or alias given as segments:
\*   without random the slug alone, with random the slug and a drawn suffix r.
Slugify(s, random, r) ==
    IF random THEN <<SlugOf(s[1]), r>> ELSE <<SlugOf(s[1])>>

\* ------------------------------------------------------------- triggers

EventTypes == {"PullRequest", "PullRequestComment", "TagRelease", "Push"}

\* The events of the sub-triggers that are set (a slice in the code; its order
\* is not read by any caller modelled here).
collectSCMEvents(scmTrigger) ==
    IF scmTrigger = Nil THEN {}
    ELSE {e \in EventTypes : scmTrigger[1][e]}

SCMTrigger(pr, prc, tag, push, postCommit) ==
    [PullRequest |-> pr, PullRequestComment |-> prc, TagRelease |-> tag,
     Push |-> push, PostCommit |-> postCommit, RepoInfo |-> FALSE, Webhook |-> <<>>]


\* A code-checkout repository reference: where it lives and what kind it is.
Repo(url, type) == [Url |-> url, Type |-> type]

\* Build, flattened to what the manager reads: Stages.CodeCheckout.MainRepo and
\* Stages.CodeScan.SonarQube.Config.Threshold (CodeScan = Nil: no code scan).
Build(url, type, codeScan) == Some([MainRepo |-> Repo(url, type), CodeScan |-> codeScan])

\* api.GetGitSource: the git source of a repository reference, or an error when
\* its type names no source-control system.
GetGitSourceErr(build) ==
    IF build[1].MainRepo.Type \in ScmTypes THEN NoErr ELSE ErrGitSource

\* -------------------------------------------------------- SCM provider

\* Hook options in which push events are left to the default of GitLab, enabled.
HookOptions_PushDefault(events) ==
    [PushEvents |-> TRUE,
     MergeRequestsEvents |-> "PullRequest" \in events,
     NoteEvents |-> "PullRequestComment" \in events,
     TagPushEvents |-> "TagRelease" \in events]

\* GitlabV3.CreateWebHook, lines 142-161: the AddProjectHookOptions built from
\* the events.  Push events start disabled; each event enables its flag; a flag
\* that is not set is not sent and stays disabled.
HookOptions(events) ==
    [PushEvents |-> "Push" \in events,
     MergeRequestsEvents |-> "PullRequest" \in events,
     NoteEvents |-> "PullRequestComment" \in events,
     TagPushEvents |-> "TagRelease" \in events]

\* GitlabV3.CreateWebHook on the hooks hs of one repository; out is the answer
\* of the remote AddProjectHook call ("ok" or an error).
\* The provider of an SVN project is taken to keep its hooks the same way.
ProviderCreateWebHook(hs, url, events, out) ==
    IF Len(url) = 0 \/ events = {}
    THEN [hooks |-> hs, err |-> ErrWebhookNotCorrect, text |-> NotCorrectText(url)]
    ELSE IF out = "ok"
         THEN [hooks |-> Append(hs, [URL |-> url, Events |-> events, Options |-> HookOptions(events)]),
               err |-> NoErr, text |-> <<>>]
         ELSE [hooks |-> hs, err |-> out, text |-> RemoteText(out)]

\* The first hook whose URL starts with url (0: none).
FirstMatch(hs, url) ==
    IF \E i \in 1..Len(hs) : HasPrefix(hs[i].URL, url)
    THEN CHOOSE i \in 1..Len(hs) :
            /\ HasPrefix(hs[i].URL, url)
            /\ \A j \in 1..(i - 1) : ~HasPrefix(hs[j].URL, url)
    ELSE 0

RemoveAt(hs, i) == SubSeq(hs, 1, i - 1) \o SubSeq(hs, i + 1, Len(hs))

DeleteOutcomes == {"ok", "listErr", "deleteErr"}

\* GitlabV3.DeleteWebHook on the hooks hs of one repository.  out: "listErr" the
\* ListProjectHooks call fails; "deleteErr" the DeleteProjectHook call fails
\* (its error is dropped and nil returned); "ok" both succeed.
ProviderDeleteWebHook(hs, url, out) ==
    IF out = "listErr"
    THEN [hooks |-> hs, err |-> "500 Internal Server Error"]
    ELSE LET i == FirstMatch(hs, url)
         IN  [hooks |-> IF i > 0 /\ out = "ok" THEN RemoveAt(hs, i) ELSE hs,
              err |-> NoErr]

\* One entry of a call log: a call a handler made to the provider, the quality
\* gate, the store or the disk; out is what the remote side did, err the error
\* handed back to the handler.
Call(name, repo, url, events, id, out, err) ==
    [call |-> name, repo |-> repo, url |-> url, events |-> events, id |-> id,
     out |-> out, err |-> err]

\* A call that names no repository.
PlainCall(name, id, err) ==
    Call(name, "", <<>>, {}, id, IF err = NoErr THEN "ok" ELSE "failed", err)

\* ------------------------------------------------------------ pipelines

\* An api.Pipeline.  text fills Description, Notification and Annotations.
Pipeline(id, name, alias, owner, build, trigger, text, projectID, creationTime) ==
    [ID |-> id, Name |-> name, Alias |-> alias, Owner |-> owner,
     Description |-> text, Notification |-> text, Annotations |-> text,
     Build |-> build, AutoTrigger |-> trigger,
     ProjectID |-> projectID, CreationTime |-> creationTime]

NoPipeline == Pipeline(0, <<>>, "", "", Nil, Nil, "", "", "")

HasSCMTrigger(pipeline) == pipeline.AutoTrigger # Nil

\* The translation of a provider failure in createWebhook: the type read is the
\* one of the pipeline's main repository.
TranslateErr(pipeline, err, text) ==
    LET repoType == pipeline.Build[1].MainRepo.Type
    IN  IF \/ repoType = "Gitlab" /\ Contains(text, <<"4", "0", "3">>)
           \/ repoType = "Github" /\ Contains(text, <<"4", "0", "4">>)
        THEN ErrPermissionDenied
        ELSE err

\* The identity createWebhook gives the pipeline before it builds the URL: a
\* new one when the caller passes none, the caller's otherwise.
WebhookPipelineID(pipelineID, fresh) ==
    IF pipelineID = 0 THEN fresh ELSE pipelineID

\* createWebhook(pipeline, provider, scmType, mainRepoUrl, pipelineID) on the
\* provider's hooks hs.  fresh is the identity bson.NewObjectId() returns when it
\* is called; out is the answer of the provider call made.  The result holds the
\* pipeline as the call leaves it, the error returned, the provider's hooks
\* afterwards and the provider calls made.
createWebhook(pipeline, scmType, mainRepoUrl, pipelineID, fresh, hs, out) ==
    IF ~HasSCMTrigger(pipeline)
    THEN [pl |-> pipeline, err |-> NoErr, hooks |-> hs, calls |-> <<>>]
    ELSE IF scmType = "SVN" /\ pipeline.AutoTrigger[1].PostCommit
    THEN IF out = "ok"
         THEN [pl |-> [pipeline EXCEPT !.AutoTrigger[1].RepoInfo = TRUE],
               err |-> NoErr, hooks |-> hs,
               calls |-> <<Call("RetrieveRepoInfo", mainRepoUrl, <<>>, {}, pipeline.ID, out, NoErr)>>]
         ELSE [pl |-> pipeline, err |-> out, hooks |-> hs,
               calls |-> <<Call("RetrieveRepoInfo", mainRepoUrl, <<>>, {}, pipeline.ID, out, out)>>]
    ELSE LET p1 == [pipeline EXCEPT !.ID = WebhookPipelineID(pipelineID, fresh)]
             url == generateWebhookURL(scmType, p1.ID)
             events == collectSCMEvents(p1.AutoTrigger)
             r == ProviderCreateWebHook(hs[mainRepoUrl], url, events, out)
         IN  IF r.err # NoErr
             THEN [pl |-> p1, err |-> TranslateErr(p1, r.err, r.text), hooks |-> hs,
                   calls |-> <<Call("CreateWebHook", mainRepoUrl, url, events, p1.ID, out, TranslateErr(p1, r.err, r.text))>>]
             ELSE [pl |-> [p1 EXCEPT !.AutoTrigger[1].Webhook = url], err |-> NoErr,
                   hooks |-> [hs EXCEPT ![mainRepoUrl] = r.hooks],
                   calls |-> <<Call("CreateWebHook", mainRepoUrl, url, events, p1.ID, out, NoErr)>>]

\* Whether createWebhook will call the provider's CreateWebHook for this pipeline.
WantsWebhook(pipeline, scmType) ==
    HasSCMTrigger(pipeline) /\ ~(scmType = "SVN" /\ pipeline.AutoTrigger[1].PostCommit)

\* The answers a provider call made by createWebhook may get.
CreateOutcomes == {"ok"} \cup RemoteErrs

\* The code-scan threshold of a build (0: none configured or not positive).
Threshold(build) ==
    IF build = Nil \/ build[1].CodeScan = Nil THEN 0 ELSE build[1].CodeScan[1]

SonarOutcomes == {"ok", "exists", "integrationErr", "createErr", "setErr", "existsSetErr"}

\* setSonarQualityGate for the pipeline with identity id: the error returned and
\* the quality-gate calls made.  out: "integrationErr" the integration cannot be
\* read (or holds no sonar info), "createErr" CreateProject fails, "exists" /
\* "existsSetErr" CreateProject answers "key already exists", "setErr" /
\* "existsSetErr" SetQualityGate fails.
setSonarQualityGate(id, gateID, out) ==
    CASE out = "integrationErr" ->
            [err |-> ErrStore, calls |-> <<PlainCall("GetIntegration", id, ErrStore)>>]
      [] out = "createErr" ->
            [err |-> ErrSonar,
             calls |-> <<PlainCall("GetIntegration", id, NoErr),
                         PlainCall("SonarCreateProject", id, ErrSonar)>>]
      [] out \in {"setErr", "existsSetErr"} ->
            [err |-> ErrSonar,
             calls |-> <<PlainCall("GetIntegration", id, NoErr),
                         PlainCall("SonarCreateProject", id,
                                   IF out = "existsSetErr" THEN ErrKeyExists ELSE NoErr),
                         PlainCall("SonarSetQualityGate", id, ErrSonar)>>]
      [] OTHER ->
            [err |-> NoErr,
             calls |-> <<PlainCall("GetIntegration", id, NoErr),
                         PlainCall("SonarCreateProject", id,
                                   IF out = "exists" THEN ErrKeyExists ELSE NoErr),
                         PlainCall("SonarSetQualityGate", id, NoErr)>>]


\* ---------------------------------------------------------------- state

VARIABLES
    store,      \* the pipelines the data store holds
    hooks,      \* per repository, the hooks registered at the provider, oldest first
    scmType,    \* the SCM type of the project's SCM configuration
    nextID,     \* the next identity bson.NewObjectId() hands out
    ncalls,     \* the handler calls made so far
    pc,         \* per caller, where its handler stands
    op,         \* per caller, the handler it runs
    np,         \* per caller, the pipeline passed in (pipeline / newPipeline), as mutated so far
    cur,        \* per caller, the pipeline loaded from the store, as mutated so far
    fresh,      \* per caller, the identity NewObjectId returns to this call
    err,        \* per caller, the handler's err variable
    ret,        \* per caller, the error the handler returned (NoErr: nil)
    log,        \* per caller, the remote and store calls the handler made, in order
    arg,        \* per caller, the pipeline as it was passed in
    loaded,     \* per caller, the pipeline as it was loaded from the store
    used,       \* per caller, whether the store held a pipeline of the name when Create looked it up
    todo,       \* per caller, the pipelines ClearPipelinesOfProject has still to delete
    counts,     \* per caller, recentCount, recentSuccessCount and recentFailedCount as passed
    listed,     \* per caller, the pipelines GetPipeline or ListPipelines hands back, as filled so far
    task,       \* per caller, per listed pipeline, the state of the goroutine started for it
    wg,         \* per caller, the counter of the sync.WaitGroup of ListPipelines
    stats,      \* the arguments and the result of the statistics computation
    prov        \* the arguments and the result of a call made to the provider directly

\* What ClearPipelinesOfProject, GetPipeline and ListPipelines keep per call.
listing == <<todo, counts, listed, task, wg>>

vars == <<store, hooks, scmType, nextID, ncalls, pc, op, np, cur, fresh, err, ret, log, arg, loaded, used,
          listing, stats, prov>>

shared == <<store, hooks, scmType, nextID, ncalls>>

\* ------------------------------------------------------------ data store

LookupOutcomes == {"ok", "storeErr"}
StoreOutcomes == {"ok", "storeErr"}
ResolveOutcomes == {"ok", "storeErr", "providerErr"}

\* The stored pipelines of the project with this name.
Named(st, name) == {e \in st : e.Name = name /\ e.ProjectID = ProjectID}

\* The error of pipelineManager.GetPipeline(projectName, pipelineName, 0, 0, 0).
GetPipelineErr(st, name, look) ==
    IF look = "storeErr" THEN ErrStore
    ELSE IF Named(st, name) = {} THEN ErrContentNotFound
    ELSE NoErr

\* GetSCMConfigFromProject followed by scm.GetSCMProvider.
ResolveErr(res) ==
    CASE res = "storeErr" -> ErrStore
      [] res = "providerErr" -> ErrProvider
      [] OTHER -> NoErr

\* dataStore.CreatePipeline: the entity the store inserts.  It gives the pipeline
\* an identity when it has none and stamps its creation time.
StoreCreated(pipeline, newID) ==
    [pipeline EXCEPT !.ID = IF pipeline.ID = 0 THEN newID ELSE pipeline.ID,
                     !.CreationTime = "created"]

\* --------------------------------------------------------- CreatePipeline

\* The pipelines CreatePipeline is called with.
CreateInputs ==
    { Pipeline(0, <<>>, "", "", Build("r1", "Gitlab", Nil),
               Some(SCMTrigger(FALSE, FALSE, FALSE, TRUE, FALSE)), "d1", ProjectID, ""),
      Pipeline(0, <<"build">>, "Build", "alice", Build("r1", "Gitlab", Nil),
               Some(SCMTrigger(FALSE, FALSE, FALSE, TRUE, FALSE)), "d1", ProjectID, ""),
      Pipeline(7, <<>>, "Build", "alice", Build("r1", "Gitlab", Some(1)),
               Some(SCMTrigger(TRUE, FALSE, TRUE, FALSE, FALSE)), "d1", ProjectID, ""),
      Pipeline(0, <<"deploy">>, "Deploy", "bob", Build("r2", "SVN", Nil),
               Some(SCMTrigger(FALSE, FALSE, FALSE, TRUE, TRUE)), "d1", ProjectID, ""),
      Pipeline(0, <<"deploy">>, "", "bob", Build("r2", "Github", Nil),
               Some(SCMTrigger(FALSE, FALSE, FALSE, FALSE, FALSE)), "d1", ProjectID, ""),
      Pipeline(0, <<"deploy">>, "", "bob", Build("r2", "", Nil),
               Nil, "d1", ProjectID, ""),
      Pipeline(0, <<"deploy">>, "", "bob", Nil, Nil, "d1", ProjectID, "") }

\* A CreatePipeline head without the test of lines 84-86.
CreateHead_NoValidation(pipeline, st, look, res, r) ==
    LET nameEmpty == pipeline.Name = <<>>
        p1 == IF nameEmpty
              THEN [pipeline EXCEPT !.Name = Slugify(<<pipeline.Alias>>, FALSE, r)]
              ELSE pipeline
        got == GetPipelineErr(st, p1.Name, look)
        p2 == IF got = NoErr /\ nameEmpty
              THEN [p1 EXCEPT !.Name = Slugify(p1.Name, TRUE, r)]
              ELSE p1
    IN  [pl |-> p2, err |-> ResolveErr(res)]

\* CreatePipeline up to the resolution of the git source (the name, the check
\* for a pipeline of that name, the project's SCM configuration and provider):
\* the pipeline as it stands and the error returned, NoErr when the call goes on.
CreateHead(pipeline, st, look, res, r) ==
    IF pipeline.Name = <<>> /\ pipeline.Alias = ""
    THEN [pl |-> pipeline, err |-> ErrValidationFailed]
    ELSE LET nameEmpty == pipeline.Name = <<>> /\ pipeline.Alias # ""
             p1 == IF nameEmpty
                   THEN [pipeline EXCEPT !.Name = Slugify(<<pipeline.Alias>>, FALSE, r)]
                   ELSE pipeline
             got == GetPipelineErr(st, p1.Name, look)
             p2 == IF got = NoErr /\ nameEmpty
                   THEN [p1 EXCEPT !.Name = Slugify(p1.Name, TRUE, r)]
                   ELSE p1
         IN  IF got = NoErr /\ ~nameEmpty
             THEN [pl |-> p1, err |-> ErrAlreadyExist]
             ELSE IF ResolveErr(res) # NoErr
             THEN [pl |-> p2, err |-> ResolveErr(res)]
             ELSE IF p2.Build = Nil
             THEN [pl |-> p2, err |-> Panic]
             ELSE [pl |-> p2, err |-> GetGitSourceErr(p2.Build)]

\* The name CreatePipeline looks up: the given one, or the slug of the alias.
LookupName(pipeline) ==
    IF pipeline.Name = <<>> THEN Slugify(<<pipeline.Alias>>, FALSE, "") ELSE pipeline.Name

\* A handler returns e.
Finish(p, e) ==
    /\ pc' = [pc EXCEPT ![p] = "done"]
    /\ ret' = [ret EXCEPT ![p] = e]

Goto(p, label) ==
    /\ pc' = [pc EXCEPT ![p] = label]
    /\ UNCHANGED ret

\* CreatePipeline, lines 84-118.
CreateCheck(p) ==
    /\ pc[p] = "idle"
    /\ ncalls < MaxCalls
    /\ ncalls' = ncalls + 1
    /\ \E pipeline \in CreateInputs, look \in LookupOutcomes,
          res \in ResolveOutcomes, r \in RandSuffixes :
         LET h == CreateHead(pipeline, store, look, res, r)
         IN  /\ op' = [op EXCEPT ![p] = "Create"]
             /\ arg' = [arg EXCEPT ![p] = pipeline]
             /\ np' = [np EXCEPT ![p] = h.pl]
             /\ err' = [err EXCEPT ![p] = h.err]
             /\ used' = [used EXCEPT ![p] =
                            (pipeline.Name # <<>> \/ pipeline.Alias # "")
                            /\ Named(store, LookupName(pipeline)) # {}]
             /\ log' = [log EXCEPT ![p] =
                           IF h.err = ErrValidationFailed THEN @
                           ELSE Append(@, PlainCall("GetPipeline", 0,
                                    GetPipelineErr(store, LookupName(pipeline), look)))]
             /\ IF h.err # NoErr
                THEN /\ Finish(p, h.err)
                     /\ UNCHANGED <<nextID, fresh>>
                ELSE /\ Goto(p, "c_webhook")
                     /\ fresh' = [fresh EXCEPT ![p] = nextID]
                     /\ nextID' = nextID + 1
    /\ UNCHANGED <<store, hooks, scmType, cur, loaded>>
    /\ UNCHANGED <<listing, stats, prov>>

\* A CreatePipeline without the deferred function.
CreateFailed_NoDefer(p, pipeline, e) == Finish(p, e)

\* Where CreatePipeline goes after a failure past line 128: the deferred
\* function calls the provider when the pipeline has an SCM trigger.
CreateFailed(p, pipeline, e) ==
    IF HasSCMTrigger(pipeline)
    THEN /\ pc' = [pc EXCEPT ![p] = "c_defer"]
         /\ ret' = [ret EXCEPT ![p] = e]
    ELSE Finish(p, e)

\* CreatePipeline, lines 120-125: createWebhook.
CreateWebhookStep(p) ==
    /\ pc[p] = "c_webhook"
    /\ LET repo == np[p].Build[1].MainRepo.Url
       IN  \E out \in CreateOutcomes :
             LET r == createWebhook(np[p], scmType, repo, 0, fresh[p], hooks, out)
             IN  /\ hooks' = r.hooks
                 /\ np' = [np EXCEPT ![p] = r.pl]
                 /\ err' = [err EXCEPT ![p] = r.err]
                 /\ log' = [log EXCEPT ![p] = @ \o r.calls]
                 /\ IF r.err # NoErr
                    THEN Finish(p, r.err)
                    ELSE Goto(p, IF Threshold(r.pl.Build) > 0 THEN "c_sonar" ELSE "c_store")
    /\ UNCHANGED <<store, scmType, nextID, ncalls, op, cur, fresh, arg, loaded, used>>
    /\ UNCHANGED <<listing, stats, prov>>

\* CreatePipeline, lines 136-147: the quality gate.
CreateSonarStep(p) ==
    /\ pc[p] = "c_sonar"
    /\ \E out \in SonarOutcomes :
         LET pl == [np[p] EXCEPT !.ID = IF @ = 0 THEN fresh[p] ELSE @]
             r == setSonarQualityGate(pl.ID, Threshold(pl.Build), out)
         IN  /\ np' = [np EXCEPT ![p] = pl]
             /\ err' = [err EXCEPT ![p] = r.err]
             /\ log' = [log EXCEPT ![p] = @ \o r.calls]
             /\ IF r.err # NoErr
                THEN CreateFailed(p, pl, r.err)
                ELSE Goto(p, "c_store")
    /\ UNCHANGED <<store, hooks, scmType, nextID, ncalls, op, cur, fresh, arg, loaded, used>>
    /\ UNCHANGED <<listing, stats, prov>>

\* CreatePipeline, lines 149-154: the store write.
CreateStoreStep(p) ==
    /\ pc[p] = "c_store"
    /\ \E out \in StoreOutcomes :
         LET e == StoreCreated(np[p], fresh[p])
         IN  IF out = "ok"
             THEN /\ store' = store \cup {e}
                  /\ np' = [np EXCEPT ![p] = e]
                  /\ log' = [log EXCEPT ![p] =
                                Append(@, PlainCall("StoreCreate", e.ID, NoErr))]
                  /\ Finish(p, NoErr)
                  /\ UNCHANGED err
             ELSE /\ log' = [log EXCEPT ![p] =
                                Append(@, PlainCall("StoreCreate", np[p].ID, ErrStore))]
                  /\ err' = [err EXCEPT ![p] = ErrStore]
                  /\ CreateFailed(p, np[p], ErrStore)
                  /\ UNCHANGED <<store, np>>
    /\ UNCHANGED <<hooks, scmType, nextID, ncalls, op, cur, fresh, arg, loaded, used>>
    /\ UNCHANGED <<listing, stats, prov>>

\* CreatePipeline, lines 127-134: the deferred removal of the webhook.  The
\* error of DeleteWebHook is assigned to err after the return value was set.
CreateDeferStep(p) ==
    /\ pc[p] = "c_defer"
    /\ LET repo == np[p].Build[1].MainRepo.Url
           url == np[p].AutoTrigger[1].Webhook
       IN  \E out \in DeleteOutcomes :
             LET r == ProviderDeleteWebHook(hooks[repo], url, out)
             IN  /\ hooks' = [hooks EXCEPT ![repo] = r.hooks]
                 /\ err' = [err EXCEPT ![p] = r.err]
                 /\ log' = [log EXCEPT ![p] =
                               Append(@, Call("DeleteWebHook", repo, url, {}, np[p].ID, out, r.err))]
    /\ pc' = [pc EXCEPT ![p] = "done"]
    /\ UNCHANGED <<store, scmType, nextID, ncalls, op, np, cur, fresh, ret, arg, loaded, used>>
    /\ UNCHANGED <<listing, stats, prov>>

\* --------------------------------------------------------- UpdatePipeline

\* The pipelines UpdatePipeline is called with.
UpdateInputs ==
    { Pipeline(9, <<"other">>, "Deploy", "carol", Build("r2", "Github", Some(2)),
               Some(SCMTrigger(FALSE, FALSE, FALSE, TRUE, FALSE)), "d2", "p2", "forged"),
      Pipeline(0, <<>>, "", "", Build("r1", "Gitlab", Nil),
               Nil, "d2", "", ""),
      Pipeline(0, <<>>, "Build", "carol", Build("r1", "", Nil),
               Nil, "d2", "", ""),
      Pipeline(0, <<>>, "Build", "carol", Nil,
               Nil, "d2", "", "") }

\* The names the handlers are called with: those in use, and one that is not.
PipelineNames == {e.Name : e \in store} \cup {<<"missing">>}

\* UpdatePipeline, lines 424-425: whether the quality gate is set again.
NeedsQualityGate(pipeline, newPipeline) ==
    /\ pipeline.Build # Nil
    /\ newPipeline.Build # Nil
    /\ Threshold(newPipeline.Build) > 0
    /\ \/ pipeline.Build[1].CodeScan = Nil
       \/ Threshold(pipeline.Build) # Threshold(newPipeline.Build)

\* A merge that takes every property of the new pipeline.
MergePipeline_All(pipeline, newPipeline) ==
    [newPipeline EXCEPT !.AutoTrigger = pipeline.AutoTrigger]

\* UpdatePipeline, lines 434-448: the properties of the new pipeline merged
\* into the loaded one.
MergePipeline(pipeline, newPipeline) ==
    [pipeline EXCEPT
        !.Alias = newPipeline.Alias,
        !.Description = newPipeline.Description,
        !.Owner = IF newPipeline.Owner # "" THEN newPipeline.Owner ELSE @,
        !.Build = IF newPipeline.Build # Nil THEN newPipeline.Build ELSE @,
        !.Notification = newPipeline.Notification,
        !.Annotations = newPipeline.Annotations]

\* dataStore.UpdatePipeline: the stored pipeline of this identity is replaced.
StoreUpdated(st, pipeline) ==
    {e \in st : e.ID # pipeline.ID} \cup {pipeline}

\* An UpdatePipeline that never removes the old webhook.
AfterLoad_NoDelete(pipeline) == "u_create"

\* UpdatePipeline, lines 384-387: the old webhook is removed first when the
\* loaded pipeline records one.
AfterLoad(pipeline) ==
    IF HasSCMTrigger(pipeline) /\ pipeline.AutoTrigger[1].Webhook # <<>>
    THEN "u_delete"
    ELSE "u_create"

\* UpdatePipeline, lines 364-382: the pipeline is loaded, the provider resolved.
UpdateLoad(p) ==
    /\ pc[p] = "idle"
    /\ ncalls < MaxCalls
    /\ ncalls' = ncalls + 1
    /\ \E name \in PipelineNames, newPipeline \in UpdateInputs,
          look \in LookupOutcomes, res \in ResolveOutcomes :
         LET e1 == GetPipelineErr(store, name, look)
         IN  /\ op' = [op EXCEPT ![p] = "Update"]
             /\ arg' = [arg EXCEPT ![p] = newPipeline]
             /\ np' = [np EXCEPT ![p] = newPipeline]
             /\ log' = [log EXCEPT ![p] = Append(@, PlainCall("GetPipeline", 0, e1))]
             /\ IF e1 # NoErr
                THEN /\ Finish(p, e1)
                     /\ err' = [err EXCEPT ![p] = e1]
                     /\ UNCHANGED <<cur, loaded>>
                ELSE \E pipeline \in Named(store, name) :
                       LET e2 == IF ResolveErr(res) # NoErr THEN ResolveErr(res)
                                 ELSE GetGitSourceErr(pipeline.Build)
                       IN  /\ cur' = [cur EXCEPT ![p] = pipeline]
                           /\ loaded' = [loaded EXCEPT ![p] = pipeline]
                           /\ err' = [err EXCEPT ![p] = e2]
                           /\ IF e2 # NoErr
                              THEN Finish(p, e2)
                              ELSE Goto(p, AfterLoad(pipeline))
    /\ UNCHANGED <<store, hooks, scmType, nextID, fresh, used>>
    /\ UNCHANGED <<listing, stats, prov>>

\* UpdatePipeline, lines 384-392: the old webhook is removed.
UpdateDeleteStep(p) ==
    /\ pc[p] = "u_delete"
    /\ LET repo == cur[p].Build[1].MainRepo.Url
           url == cur[p].AutoTrigger[1].Webhook
       IN  \E out \in DeleteOutcomes :
             LET r == ProviderDeleteWebHook(hooks[repo], url, out)
             IN  /\ hooks' = [hooks EXCEPT ![repo] = r.hooks]
                 /\ log' = [log EXCEPT ![p] =
                               Append(@, Call("DeleteWebHook", repo, url, {}, cur[p].ID, out, r.err))]
                 /\ IF r.err # NoErr
                    THEN /\ Finish(p, r.err)
                         /\ err' = [err EXCEPT ![p] = r.err]
                    ELSE /\ Goto(p, "u_create")
                         /\ UNCHANGED err
    /\ UNCHANGED <<store, scmType, nextID, ncalls, op, np, cur, fresh, arg, loaded, used>>
    /\ UNCHANGED <<listing, stats, prov>>

\* UpdatePipeline, lines 394-416: the new git source and the new webhook.
\* newGitSource stays nil when the new pipeline has no Build, and line 405
\* reads newGitSource.Url.
UpdateCreateStep(p) ==
    /\ pc[p] = "u_create"
    /\ IF np[p].Build = Nil
       THEN /\ Finish(p, Panic)
            /\ UNCHANGED <<hooks, np, cur, err, log>>
       ELSE IF GetGitSourceErr(np[p].Build) # NoErr
       THEN /\ Finish(p, GetGitSourceErr(np[p].Build))
            /\ err' = [err EXCEPT ![p] = GetGitSourceErr(np[p].Build)]
            /\ UNCHANGED <<hooks, np, cur, log>>
       ELSE LET repo == np[p].Build[1].MainRepo.Url
            IN  \E out \in CreateOutcomes :
                  LET r == createWebhook(np[p], scmType, repo, cur[p].ID, fresh[p], hooks, out)
                  IN  /\ hooks' = r.hooks
                      /\ np' = [np EXCEPT ![p] = r.pl]
                      /\ err' = [err EXCEPT ![p] = r.err]
                      /\ log' = [log EXCEPT ![p] = @ \o r.calls]
                      /\ IF r.err # NoErr
                         THEN /\ Goto(p, "u_rollback")
                              /\ UNCHANGED cur
                         ELSE /\ cur' = [cur EXCEPT ![p].AutoTrigger = r.pl.AutoTrigger]
                              /\ Goto(p, IF NeedsQualityGate(cur[p], r.pl)
                                         THEN "u_sonar" ELSE "u_store")
    /\ UNCHANGED <<store, scmType, nextID, ncalls, op, fresh, arg, loaded, used>>
    /\ UNCHANGED <<listing, stats, prov>>

\* A return of the error of the rollback when it has one.
RollbackReturn_Last(createErr, rollbackErr) ==
    IF rollbackErr # NoErr THEN rollbackErr ELSE createErr

\* UpdatePipeline, lines 409-413: what is returned after the rollback, given
\* the error of the new webhook and the error of the rollback.
RollbackReturn(createErr, rollbackErr) == createErr

\* UpdatePipeline, lines 406-414: the old webhook is created again from the
\* loaded pipeline; the error returned is the one of the new webhook.
UpdateRollbackStep(p) ==
    /\ pc[p] = "u_rollback"
    /\ LET repo == cur[p].Build[1].MainRepo.Url
       IN  \E out \in CreateOutcomes :
             LET r == createWebhook(cur[p], scmType, repo, cur[p].ID, fresh[p], hooks, out)
             IN  /\ hooks' = r.hooks
                 /\ cur' = [cur EXCEPT ![p] = r.pl]
                 /\ log' = [log EXCEPT ![p] = @ \o r.calls]
                 /\ Finish(p, RollbackReturn(err[p], r.err))
    /\ UNCHANGED <<store, scmType, nextID, ncalls, op, np, fresh, err, arg, loaded, used>>
    /\ UNCHANGED <<listing, stats, prov>>

\* UpdatePipeline, lines 418-432: the quality gate.
UpdateSonarStep(p) ==
    /\ pc[p] = "u_sonar"
    /\ \E out \in SonarOutcomes :
         LET pl == [np[p] EXCEPT !.ID = cur[p].ID]
             r == setSonarQualityGate(pl.ID, Threshold(pl.Build), out)
         IN  /\ np' = [np EXCEPT ![p] = pl]
             /\ err' = [err EXCEPT ![p] = r.err]
             /\ log' = [log EXCEPT ![p] = @ \o r.calls]
             /\ IF r.err # NoErr THEN Finish(p, r.err) ELSE Goto(p, "u_store")
    /\ UNCHANGED <<store, hooks, scmType, nextID, ncalls, op, cur, fresh, arg, loaded, used>>
    /\ UNCHANGED <<listing, stats, prov>>

\* UpdatePipeline, lines 434-454: the merge and the store write.  The store
\* answers an error when it holds no pipeline of this identity any more.
UpdateStoreStep(p) ==
    /\ pc[p] = "u_store"
    /\ LET pipeline == MergePipeline(cur[p], np[p])
       IN  /\ cur' = [cur EXCEPT ![p] = pipeline]
           /\ \E out \in StoreOutcomes :
                IF out = "ok" /\ \E e \in store : e.ID = pipeline.ID
                THEN /\ store' = StoreUpdated(store, pipeline)
                     /\ log' = [log EXCEPT ![p] =
                                   Append(@, PlainCall("StoreUpdate", pipeline.ID, NoErr))]
                     /\ Finish(p, NoErr)
                     /\ UNCHANGED err
                ELSE /\ log' = [log EXCEPT ![p] =
                                   Append(@, PlainCall("StoreUpdate", pipeline.ID, ErrStore))]
                     /\ err' = [err EXCEPT ![p] = ErrStore]
                     /\ Finish(p, ErrStore)
                     /\ UNCHANGED store
    /\ UNCHANGED <<hooks, scmType, nextID, ncalls, op, np, fresh, arg, loaded, used>>
    /\ UNCHANGED <<listing, stats, prov>>

\* --------------------------------------------------------- DeletePipeline

ErrDeleteRecords == "Fail to delete all pipeline records"
ErrDeleteStore == "Fail to delete the pipeline"

\* DeletePipeline, lines 459-470: the pipeline is loaded, its log folder removed
\* (an error of DeletePipelineLogs is dropped), the SCM configuration read.
DeleteLoad(p) ==
    /\ pc[p] = "idle"
    /\ ncalls < MaxCalls
    /\ ncalls' = ncalls + 1
    /\ \E name \in PipelineNames, look \in LookupOutcomes,
          logsOk \in BOOLEAN, res \in {"ok", "storeErr"} :
         LET e1 == GetPipelineErr(store, name, look)
         IN  /\ op' = [op EXCEPT ![p] = "Delete"]
             /\ IF e1 # NoErr
                THEN /\ Finish(p, e1)
                     /\ err' = [err EXCEPT ![p] = e1]
                     /\ log' = [log EXCEPT ![p] = Append(@, PlainCall("GetPipeline", 0, e1))]
                     /\ UNCHANGED <<cur, loaded>>
                ELSE \E pipeline \in Named(store, name) :
                       /\ cur' = [cur EXCEPT ![p] = pipeline]
                       /\ loaded' = [loaded EXCEPT ![p] = pipeline]
                       /\ log' = [log EXCEPT ![p] =
                                     @ \o <<PlainCall("GetPipeline", 0, e1),
                                            PlainCall("RemoveLogs", pipeline.ID,
                                                      IF logsOk THEN NoErr ELSE ErrDisk)>>]
                       /\ err' = [err EXCEPT ![p] = ResolveErr(res)]
                       /\ IF ResolveErr(res) # NoErr
                          THEN Finish(p, ResolveErr(res))
                          ELSE Goto(p, "d_store")
    /\ UNCHANGED <<store, hooks, scmType, nextID, np, fresh, arg, used>>
    /\ UNCHANGED <<listing, stats, prov>>

\* A deletePipeline that returns the error of a cleanup that failed.
CleanupReturn_Err(e) == e

\* deletePipeline, lines 520-527 and 533-551: what is returned when the removal
\* of the webhook or of the quality-gate project fails with e.
CleanupReturn(e) == NoErr

\* What the caller of deletePipeline does with its result e: DeletePipeline
\* returns it (line 473); ClearPipelinesOfProject returns an error and goes on
\* to the next pipeline otherwise (lines 488-492).
Deleted(p, e) ==
    IF op[p] = "Clear" /\ e = NoErr THEN Goto(p, "cl_next") ELSE Finish(p, e)

\* deletePipeline, lines 502-509: the records, then the stored pipeline.
DeleteStoreStep(p) ==
    /\ pc[p] = "d_store"
    /\ \E recordsOk \in BOOLEAN, out \in StoreOutcomes :
         LET id == cur[p].ID
             c1 == PlainCall("ClearRecords", id, IF recordsOk THEN NoErr ELSE ErrDeleteRecords)
             c2 == PlainCall("StoreDelete", id, IF out = "ok" THEN NoErr ELSE ErrDeleteStore)
         IN  IF ~recordsOk
             THEN /\ log' = [log EXCEPT ![p] = Append(@, c1)]
                  /\ err' = [err EXCEPT ![p] = ErrDeleteRecords]
                  /\ Deleted(p, ErrDeleteRecords)
                  /\ UNCHANGED store
             ELSE IF out # "ok"
             THEN /\ log' = [log EXCEPT ![p] = @ \o <<c1, c2>>]
                  /\ err' = [err EXCEPT ![p] = ErrDeleteStore]
                  /\ Deleted(p, ErrDeleteStore)
                  /\ UNCHANGED store
             ELSE /\ log' = [log EXCEPT ![p] = @ \o <<c1, c2>>]
                  /\ store' = {e \in store : e.ID # id}
                  /\ UNCHANGED err
                  /\ IF HasSCMTrigger(cur[p]) THEN Goto(p, "d_webhook")
                     ELSE IF cur[p].Build # Nil /\ cur[p].Build[1].CodeScan # Nil
                     THEN Goto(p, "d_sonar")
                     ELSE Deleted(p, NoErr)
    /\ UNCHANGED <<hooks, scmType, nextID, ncalls, op, np, cur, fresh, arg, loaded, used>>
    /\ UNCHANGED <<listing, stats, prov>>

\* deletePipeline, lines 511-528: the webhook.  A provider that cannot be got and
\* a DeleteWebHook that fails both end the call with nil.
DeleteWebhookStep(p) ==
    /\ pc[p] = "d_webhook"
    /\ IF GetGitSourceErr(cur[p].Build) # NoErr
       THEN /\ Deleted(p, GetGitSourceErr(cur[p].Build))
            /\ UNCHANGED <<hooks, log>>
       ELSE \E res \in {"ok", "providerErr"}, out \in DeleteOutcomes :
              LET repo == cur[p].Build[1].MainRepo.Url
                  url == cur[p].AutoTrigger[1].Webhook
                  r == ProviderDeleteWebHook(hooks[repo], url, out)
              IN  IF res # "ok"
                  THEN /\ Deleted(p, CleanupReturn(ErrProvider))
                       /\ UNCHANGED <<hooks, log>>
                  ELSE /\ hooks' = [hooks EXCEPT ![repo] = r.hooks]
                       /\ log' = [log EXCEPT ![p] =
                                     Append(@, Call("DeleteWebHook", repo, url, {}, cur[p].ID, out, r.err))]
                       /\ IF r.err # NoErr THEN Deleted(p, CleanupReturn(r.err))
                          ELSE IF cur[p].Build[1].CodeScan # Nil THEN Goto(p, "d_sonar")
                          ELSE Deleted(p, NoErr)
    /\ UNCHANGED <<store, scmType, nextID, ncalls, op, np, cur, fresh, err, arg, loaded, used>>
    /\ UNCHANGED <<listing, stats, prov>>

\* deletePipeline, lines 530-553: the quality-gate project.
DeleteSonarStep(p) ==
    /\ pc[p] = "d_sonar"
    /\ \E out \in {"ok", "integrationErr", "deleteErr"} :
         /\ log' = [log EXCEPT ![p] =
                       IF out = "integrationErr"
                       THEN Append(@, PlainCall("GetIntegration", cur[p].ID, ErrStore))
                       ELSE @ \o <<PlainCall("GetIntegration", cur[p].ID, NoErr),
                                   PlainCall("SonarDeleteProject", cur[p].ID,
                                             IF out = "ok" THEN NoErr ELSE ErrSonar)>>]
         /\ Deleted(p, IF out = "ok" THEN NoErr
                         ELSE CleanupReturn(IF out = "deleteErr" THEN ErrSonar ELSE ErrStore))
    /\ UNCHANGED <<store, hooks, scmType, nextID, ncalls, op, np, cur, fresh, err, arg, loaded, used>>
    /\ UNCHANGED <<listing, stats, prov>>

\* ------------------------------------------------ ClearPipelinesOfProject

\* The sequences that hold each element of S once: the orders in which the
\* store may list the pipelines.
Orderings(S) ==
    {s \in [1..Cardinality(S) -> S] : \A i, j \in 1..Cardinality(S) : s[i] = s[j] => i = j}

ListOutcomes == {"ok", "notFound", "storeErr"}

\* ListPipelines, lines 290-303: the project is not found, or the store fails.
ListErr(out) ==
    IF out = "notFound" THEN ErrContentNotFound
    ELSE IF out = "storeErr" THEN ErrStore ELSE NoErr

\* ClearPipelinesOfProject, lines 478-486: the pipelines of the project are
\* listed with no recent records; when the listing fails nil is returned.  Then
\* the SCM configuration is read.
ClearLoad(p) ==
    /\ pc[p] = "idle"
    /\ ncalls < MaxCalls
    /\ ncalls' = ncalls + 1
    /\ op' = [op EXCEPT ![p] = "Clear"]
    /\ \E out \in ListOutcomes, res \in {"ok", "storeErr"} :
         IF ListErr(out) # NoErr
         THEN /\ log' = [log EXCEPT ![p] = Append(@, PlainCall("ListPipelines", 0, ListErr(out)))]
              /\ Finish(p, NoErr)
              /\ UNCHANGED <<todo, err>>
         ELSE /\ log' = [log EXCEPT ![p] = Append(@, PlainCall("ListPipelines", 0, NoErr))]
              /\ err' = [err EXCEPT ![p] = ResolveErr(res)]
              /\ IF ResolveErr(res) # NoErr
                 THEN /\ Finish(p, ResolveErr(res))
                      /\ UNCHANGED todo
                 ELSE /\ \E s \in Orderings({e \in store : e.ProjectID = ProjectID}) :
                           todo' = [todo EXCEPT ![p] = s]
                      /\ Goto(p, "cl_next")
    /\ UNCHANGED <<store, hooks, scmType, nextID, np, cur, fresh, arg, loaded, used>>
    /\ UNCHANGED <<counts, listed, task, wg, stats, prov>>

\* ClearPipelinesOfProject, lines 488-494: the next pipeline of the list is
\* handed to deletePipeline; after the last one nil is returned.
ClearNext(p) ==
    /\ pc[p] = "cl_next"
    /\ IF todo[p] = <<>>
       THEN /\ Finish(p, NoErr)
            /\ UNCHANGED <<todo, cur, loaded>>
       ELSE /\ cur' = [cur EXCEPT ![p] = Head(todo[p])]
            /\ loaded' = [loaded EXCEPT ![p] = Head(todo[p])]
            /\ todo' = [todo EXCEPT ![p] = Tail(@)]
            /\ Goto(p, "d_store")
    /\ UNCHANGED <<store, hooks, scmType, nextID, ncalls, op, np, fresh, err, log, arg, used>>
    /\ UNCHANGED <<counts, listed, task, wg, stats, prov>>

\* ------------------------------------------- GetPipeline, ListPipelines

\* The counts the callers pass: none positive, one positive, all three positive.
CountInputs == {<<0, -1, 0>>, <<2, 0, 0>>, <<1, 1, 1>>}

\* The outcomes of the three queries of one assignRecentRecord: all succeed,
\* the first, the second or the third fails, all fail.
QueryOutcomes ==
    {<<"ok", "ok", "ok">>, <<"storeErr", "ok", "ok">>, <<"ok", "storeErr", "ok">>,
     <<"ok", "ok", "storeErr">>, <<"storeErr", "storeErr", "storeErr">>}

\* The status filter of the three queries of assignRecentRecord, in their order.
RecentFilters == <<"", "Success", "Failed">>

\* The calls of FindRecentRecordsByPipelineID, by filter.
RecentCalls == <<"FindRecentRecords", "FindRecentSuccessRecords", "FindRecentFailedRecords">>

\* A pipeline as GetPipeline and ListPipelines hand it back: the three
\* attachments are unset when it comes from the store.
Listed(e) ==
    [ID |-> e.ID, RecentRecords |-> Nil, RecentSuccessRecords |-> Nil, RecentFailedRecords |-> Nil]

\* What a query of FindRecentRecordsByPipelineID returns when it succeeds.
Records(k, n) == Some([filter |-> RecentFilters[k], limit |-> n])

\* An assignRecentRecord that gives up at the first query that fails.
assignRecentRecord_Abort(pipeline, cnt, outs) ==
    LET asked(k) == cnt[k] > 0 /\ \A j \in 1..(k - 1) : cnt[j] > 0 => outs[j] = "ok"
        q(k) == IF asked(k)
                THEN <<PlainCall(RecentCalls[k], pipeline.ID, IF outs[k] = "ok" THEN NoErr ELSE ErrStore)>>
                ELSE <<>>
        got(k, old) == IF asked(k) /\ outs[k] = "ok" THEN Records(k, cnt[k]) ELSE old
    IN  [pl |-> [pipeline EXCEPT !.RecentRecords = got(1, @),
                                 !.RecentSuccessRecords = got(2, @),
                                 !.RecentFailedRecords = got(3, @)],
         calls |-> q(1) \o q(2) \o q(3)]

\* assignRecentRecord, lines 325-360: each of the three queries is made when
\* its count is positive; its result is attached when it succeeds, and its
\* error is only logged.  outs[k] is the outcome of the k-th query.
assignRecentRecord(pipeline, cnt, outs) ==
    LET q(k) == IF cnt[k] > 0
                THEN <<PlainCall(RecentCalls[k], pipeline.ID, IF outs[k] = "ok" THEN NoErr ELSE ErrStore)>>
                ELSE <<>>
        got(k, old) == IF cnt[k] > 0 /\ outs[k] = "ok" THEN Records(k, cnt[k]) ELSE old
    IN  [pl |-> [pipeline EXCEPT !.RecentRecords = got(1, @),
                                 !.RecentSuccessRecords = got(2, @),
                                 !.RecentFailedRecords = got(3, @)],
         calls |-> q(1) \o q(2) \o q(3)]

\* The pipelines of S in the order of their identities: the order in which
\* ListPipelines is taken to get them, each one being handled on its own.
ByID(S) == CHOOSE s \in Orderings(S) : \A i, j \in DOMAIN s : i < j => s[i].ID < s[j].ID

\* GetPipeline, lines 236-257, called with recent counts.
GetLoad(p) ==
    /\ pc[p] = "idle"
    /\ ncalls < MaxCalls
    /\ ncalls' = ncalls + 1
    /\ op' = [op EXCEPT ![p] = "Get"]
    /\ \E name \in PipelineNames, look \in LookupOutcomes, cnt \in CountInputs, outs \in QueryOutcomes :
         LET e1 == GetPipelineErr(store, name, look)
         IN  /\ counts' = [counts EXCEPT ![p] = cnt]
             /\ IF e1 # NoErr
                THEN /\ log' = [log EXCEPT ![p] = Append(@, PlainCall("Find", 0, e1))]
                     /\ Finish(p, e1)
                     /\ UNCHANGED listed
                ELSE \E pipeline \in Named(store, name) :
                       LET r == assignRecentRecord(Listed(pipeline), cnt, outs)
                       IN  /\ log' = [log EXCEPT ![p] = Append(@, PlainCall("Find", 0, e1)) \o r.calls]
                           /\ listed' = [listed EXCEPT ![p] = <<r.pl>>]
                           /\ Finish(p, NoErr)
    /\ UNCHANGED <<store, hooks, scmType, nextID, np, cur, fresh, err, arg, loaded, used>>
    /\ UNCHANGED <<todo, task, wg, stats, prov>>

\* ListPipelines, lines 290-308: the pipelines of the project are read; with no
\* positive count they are returned as they are.
ListLoad(p) ==
    /\ pc[p] = "idle"
    /\ ncalls < MaxCalls
    /\ ncalls' = ncalls + 1
    /\ op' = [op EXCEPT ![p] = "List"]
    /\ \E out \in ListOutcomes, cnt \in CountInputs :
         /\ counts' = [counts EXCEPT ![p] = cnt]
         /\ log' = [log EXCEPT ![p] = Append(@, PlainCall("Find", 0, ListErr(out)))]
         /\ IF ListErr(out) # NoErr
            THEN /\ Finish(p, ListErr(out))
                 /\ UNCHANGED listed
            ELSE /\ LET s == ByID({e \in store : e.ProjectID = ProjectID})
                    IN  listed' = [listed EXCEPT ![p] = [i \in DOMAIN s |-> Listed(s[i])]]
                 /\ IF cnt[1] <= 0 /\ cnt[2] <= 0 /\ cnt[3] <= 0
                    THEN Finish(p, NoErr)
                    ELSE IF {e \in store : e.ProjectID = ProjectID} = {} THEN Goto(p, "l_wait")
                    ELSE Goto(p, "l_spawn")
    /\ UNCHANGED <<store, hooks, scmType, nextID, np, cur, fresh, err, arg, loaded, used>>
    /\ UNCHANGED <<todo, task, wg, stats, prov>>

\* ListPipelines, lines 311-318: one turn of the loop adds one to the wait
\* group and starts the goroutine of the next pipeline.
ListSpawn(p) ==
    /\ pc[p] = "l_spawn"
    /\ wg' = [wg EXCEPT ![p] = @ + 1]
    /\ task' = [task EXCEPT ![p] = Append(@, "ready")]
    /\ IF Len(task[p]) + 1 = Len(listed[p]) THEN Goto(p, "l_wait") ELSE Goto(p, "l_spawn")
    /\ UNCHANGED <<store, hooks, scmType, nextID, ncalls, op, np, cur, fresh, err, log, arg, loaded, used>>
    /\ UNCHANGED <<todo, counts, listed, stats, prov>>

\* A loop whose goroutines are all handed the first element.
TaskElement_First(i) == 1

\* ListPipelines, line 317: the goroutine started in the i-th turn of the loop
\* is handed &pipelines[i], evaluated in that turn: the element of its own turn.
TaskElement(i) == i

\* ListPipelines, lines 314-317: the goroutine of the i-th pipeline fills in
\* the pipeline and leaves the wait group.
TaskRun(p, i) ==
    /\ i \in DOMAIN task[p]
    /\ task[p][i] = "ready"
    /\ \E outs \in QueryOutcomes :
         LET r == assignRecentRecord(listed[p][TaskElement(i)], counts[p], outs)
         IN  /\ listed' = [listed EXCEPT ![p][TaskElement(i)] = r.pl]
             /\ log' = [log EXCEPT ![p] = @ \o r.calls]
    /\ task' = [task EXCEPT ![p][i] = "done"]
    /\ wg' = [wg EXCEPT ![p] = @ - 1]
    /\ UNCHANGED <<store, hooks, scmType, nextID, ncalls, pc, op, np, cur, fresh, err, ret, arg, loaded, used>>
    /\ UNCHANGED <<todo, counts, stats, prov>>

\* Where a goroutine stands before its first, second and third query.
TaskAt == <<"ready", "second", "third">>

\* assignRecentRecord, one of its three blocks (lines 328-335, 337-347,
\* 349-359): the k-th query is made when its count is positive and its result
\* is written to its own field of the pipeline when it succeeds.
assignQuery(pipeline, k, cnt, out) ==
    IF cnt[k] <= 0
    THEN [pl |-> pipeline, calls |-> <<>>]
    ELSE [pl |-> IF out # "ok" THEN pipeline
                 ELSE IF k = 1 THEN [pipeline EXCEPT !.RecentRecords = Records(1, cnt[1])]
                 ELSE IF k = 2 THEN [pipeline EXCEPT !.RecentSuccessRecords = Records(2, cnt[2])]
                 ELSE [pipeline EXCEPT !.RecentFailedRecords = Records(3, cnt[3])],
          calls |-> <<PlainCall(RecentCalls[k], pipeline.ID,
                                IF out = "ok" THEN NoErr ELSE ErrStore)>>]

\* ListPipelines, lines 314-317, one block of assignRecentRecord at a time:
\* the goroutine of the i-th turn makes its k-th query on the element it was
\* handed; after the third it leaves the wait group (the deferred wg.Done).
TaskQuery(p, i, k) ==
    /\ i \in DOMAIN task[p]
    /\ task[p][i] = TaskAt[k]
    /\ \E out \in {"ok", "storeErr"} :
         LET r == assignQuery(listed[p][TaskElement(i)], k, counts[p], out)
         IN  /\ listed' = [listed EXCEPT ![p][TaskElement(i)] = r.pl]
             /\ log' = [log EXCEPT ![p] = @ \o r.calls]
    /\ task' = [task EXCEPT ![p][i] = IF k = 3 THEN "done" ELSE TaskAt[k + 1]]
    /\ wg' = [wg EXCEPT ![p] = IF k = 3 THEN @ - 1 ELSE @]
    /\ UNCHANGED <<store, hooks, scmType, nextID, ncalls, pc, op, np, cur, fresh, err, ret, arg, loaded, used>>
    /\ UNCHANGED <<todo, counts, stats, prov>>

\* A Wait that does not block.
WaitOver_NoWait(n) == TRUE

\* sync.WaitGroup.Wait, line 319: it returns when the counter is zero.
WaitOver(n) == n = 0

\* ListPipelines, lines 319-321.
ListWait(p) ==
    /\ pc[p] = "l_wait"
    /\ WaitOver(wg[p])
    /\ Finish(p, NoErr)
    /\ UNCHANGED <<store, hooks, scmType, nextID, ncalls, op, np, cur, fresh, err, log, arg, loaded, used>>
    /\ UNCHANGED <<listing, stats, prov>>

\* The caller takes the result; it may call again.
Return(p) ==
    /\ pc[p] = "done"
    /\ pc' = [pc EXCEPT ![p] = "idle"]
    /\ op' = [op EXCEPT ![p] = ""]
    /\ np' = [np EXCEPT ![p] = NoPipeline]
    /\ cur' = [cur EXCEPT ![p] = NoPipeline]
    /\ arg' = [arg EXCEPT ![p] = NoPipeline]
    /\ loaded' = [loaded EXCEPT ![p] = NoPipeline]
    /\ fresh' = [fresh EXCEPT ![p] = 0]
    /\ err' = [err EXCEPT ![p] = NoErr]
    /\ ret' = [ret EXCEPT ![p] = NoErr]
    /\ log' = [log EXCEPT ![p] = <<>>]
    /\ used' = [used EXCEPT ![p] = FALSE]
    /\ todo' = [todo EXCEPT ![p] = <<>>]
    /\ counts' = [counts EXCEPT ![p] = <<0, 0, 0>>]
    /\ listed' = [listed EXCEPT ![p] = <<>>]
    /\ task' = [task EXCEPT ![p] = <<>>]
    /\ wg' = [wg EXCEPT ![p] = 0]
    /\ UNCHANGED <<shared, stats, prov>>

\* ------------------------------------------------------------ statistics

\* The last day after the epoch, and the most records, that a statistics
\* request is given.
MaxDays == 1
MaxRecords == 3

\* The seconds of a day, as formatTimeToDay has them.
Day == 86400

\* Times as seconds since the epoch (time.Time.Unix): from the day before the
\* epoch on, at midnight, in the morning and in the evening.
Times == {d * Day + h * (Day \div 4) : d \in (-1)..MaxDays, h \in {0, 1, 3}}

\* The start times of the records: the mornings of the first two days.
RecordTimes == {Day \div 4, Day + Day \div 4}

\* api.Status values of a record; Running is one that statsStatus does not count.
Statuses == {"Success", "Failed", "Aborted", "Running"}

PipelineRecord(startTime, status) == [StartTime |-> startTime, Status |-> status]

RecordInputs ==
    UNION {[1..n -> {PipelineRecord(t, st) : t \in RecordTimes, st \in Statuses}] : n \in 0..MaxRecords}

\* The remainder of Go's % on int64: its sign is the sign of a.
Rem(a, b) == IF a >= 0 THEN a % b ELSE -((-a) % b)

\* formatTimeToDay, lines 650-653.
formatTimeToDay(t) == t - Rem(t, Day)

\* A statsStatus that counts a status it does not know as a failure.
statsStatus_Default(s, recordStatus) ==
    IF recordStatus = "Success" THEN [s EXCEPT !.Success = @ + 1]
    ELSE IF recordStatus = "Aborted" THEN [s EXCEPT !.Aborted = @ + 1]
    ELSE [s EXCEPT !.Failed = @ + 1]

\* statsStatus, lines 655-667.
statsStatus(s, recordStatus) ==
    IF recordStatus = "Success" THEN [s EXCEPT !.Success = @ + 1]
    ELSE IF recordStatus = "Failed" THEN [s EXCEPT !.Failed = @ + 1]
    ELSE IF recordStatus = "Aborted" THEN [s EXCEPT !.Aborted = @ + 1]
    ELSE s

\* An api.StatsDetail with no record counted.
StatsDetail(timestamp) == [Timestamp |-> timestamp, Success |-> 0, Failed |-> 0, Aborted |-> 0]

\* initStatsDetails, lines 670-675: one detail per turn of the loop, start
\* moving on by 24 hours while it is not after end.
RECURSIVE DetailsLoop(_, _)
DetailsLoop(start, end) ==
    IF start > end THEN <<>>
    ELSE <<StatsDetail(formatTimeToDay(start))>> \o DetailsLoop(start + Day, end)

\* initStatsDetails, lines 669-688: the loop, then the day of end when the
\* last detail is not that day.
initStatsDetails(start, end) ==
    LET details == DetailsLoop(start, end)
        endDay == formatTimeToDay(end)
    IN  IF Len(details) > 0 /\ details[Len(details)].Timestamp # endDay
        THEN Append(details, StatsDetail(endDay))
        ELSE details

\* transRecordsToStats, lines 630-637: a record is counted in every detail of
\* its day.
RECURSIVE CountDetails(_, _)
CountDetails(details, records) ==
    IF records = <<>> THEN details
    ELSE CountDetails([i \in DOMAIN details |->
                          IF details[i].Timestamp = formatTimeToDay(Head(records).StartTime)
                          THEN statsStatus(details[i], Head(records).Status)
                          ELSE details[i]],
                      Tail(records))

\* transRecordsToStats, lines 639-640: every record is counted in the overview.
RECURSIVE CountOverview(_, _)
CountOverview(overview, records) ==
    IF records = <<>> THEN overview
    ELSE CountOverview(statsStatus(overview, Head(records).Status), Tail(records))

\* A ratio in hundredths of a percent with the digits past the second
\* decimal cut off.
Hundredths_Trunc(success, total) == (success * 10000) \div total

\* float64(success)/float64(total)*100 as the verb %.2f rounds it, in
\* hundredths of a percent: to the nearest hundredth.
Hundredths(success, total) == (2 * success * 10000 + total) \div (2 * total)

Digit == <<"0", "1", "2", "3", "4", "5", "6", "7", "8", "9">>

\* A natural number in decimal digits.
RECURSIVE Decimal(_)
Decimal(n) == IF n < 10 THEN Digit[n + 1] ELSE Decimal(n \div 10) \o Digit[(n % 10) + 1]

\* fmt.Sprintf("%.2f%%", x), line 644, for x given in hundredths.
FormatPercent(h) ==
    Decimal(h \div 100) \o "." \o Digit[((h % 100) \div 10) + 1] \o Digit[(h % 10) + 1] \o "%"

\* transRecordsToStats, lines 619-648.
transRecordsToStats(records, start, end) ==
    LET overview == CountOverview([Total |-> Len(records), SuccessRatio |-> "0.00%",
                                   Success |-> 0, Failed |-> 0, Aborted |-> 0], records)
    IN  [Overview |-> IF overview.Total # 0
                      THEN [overview EXCEPT !.SuccessRatio =
                               FormatPercent(Hundredths(overview.Success, overview.Total))]
                      ELSE overview,
         Details |-> CountDetails(initStatsDetails(start, end), records)]

\* No statistics asked for.
NoStats == [start |-> 0, end |-> 0, records |-> <<>>, asked |-> FALSE, result |-> Nil]

\* The statistics of a range and of a set of records are computed.
ComputeStats ==
    /\ ~stats.asked
    /\ stats' = [stats EXCEPT !.asked = TRUE,
                              !.result = Some(transRecordsToStats(stats.records, stats.start, stats.end))]
    /\ UNCHANGED <<store, hooks, scmType, nextID, ncalls, pc, op, np, cur, fresh, err, ret, log, arg,
                   loaded, used, listing, prov>>

\* ------------------------------------------------------------- provider

\* The most hooks a repository holds when DeleteWebHook is called on it.
MaxHooks == 2

\* No call made to the provider directly.
NoProv == [fn |-> "", hs |-> <<>>, url |-> <<>>, trigger |-> Nil, out |-> "", result |-> Nil]

\* Every combination of the four sub-triggers of an SCM trigger.
TriggerInputs ==
    {Some(SCMTrigger(pr, prc, tag, push, FALSE)) : pr \in BOOLEAN, prc \in BOOLEAN,
                                                  tag \in BOOLEAN, push \in BOOLEAN}

\* Webhook URLs: those of two pipelines, the first one also as the provider
\* may hold it with a query parameter appended, and the URL of no pipeline at all.
HookURLs ==
    {generateWebhookURL("Gitlab", FirstID),
     generateWebhookURL("Gitlab", FirstID) \o <<"?token=t">>,
     generateWebhookURL("Gitlab", FirstID + 1)}

\* The URLs DeleteWebHook is called with: the two pipelines', one that is
\* registered nowhere, and the empty one.
DeleteURLs ==
    {generateWebhookURL("Gitlab", FirstID), generateWebhookURL("Gitlab", FirstID + 1),
     generateWebhookURL("Gitlab", FirstID + 2), <<>>}

\* The hooks a repository may hold.
HookInputs ==
    UNION {[1..n -> {[URL |-> u, Events |-> {e}, Options |-> HookOptions({e})] :
                        u \in HookURLs, e \in {"Push", "PullRequest"}}] : n \in 0..MaxHooks}

\* CreateWebHook is called with the URL of a pipeline and the events that
\* collectSCMEvents gives for its trigger.
ApplyCreateWebHook ==
    /\ prov.fn = "CreateWebHook"
    /\ prov.result = Nil
    /\ prov' = [prov EXCEPT !.result =
                   Some(ProviderCreateWebHook(prov.hs, prov.url, collectSCMEvents(prov.trigger), prov.out))]
    /\ UNCHANGED <<store, hooks, scmType, nextID, ncalls, pc, op, np, cur, fresh, err, ret, log, arg,
                   loaded, used, listing, stats>>

\* DeleteWebHook is called on a repository.
ApplyDeleteWebHook ==
    /\ prov.fn = "DeleteWebHook"
    /\ prov.result = Nil
    /\ prov' = [prov EXCEPT !.result = Some(ProviderDeleteWebHook(prov.hs, prov.url, prov.out))]
    /\ UNCHANGED <<store, hooks, scmType, nextID, ncalls, pc, op, np, cur, fresh, err, ret, log, arg,
                   loaded, used, listing, stats>>

\* ------------------------------------------------------- specification

\* No call is under way, nothing is stored.
\* No caller has called yet.
InitIdle ==
    /\ ncalls = 0
    /\ pc = [p \in Procs |-> "idle"]
    /\ op = [p \in Procs |-> ""]
    /\ np = [p \in Procs |-> NoPipeline]
    /\ cur = [p \in Procs |-> NoPipeline]
    /\ arg = [p \in Procs |-> NoPipeline]
    /\ loaded = [p \in Procs |-> NoPipeline]
    /\ fresh = [p \in Procs |-> 0]
    /\ err = [p \in Procs |-> NoErr]
    /\ ret = [p \in Procs |-> NoErr]
    /\ log = [p \in Procs |-> <<>>]
    /\ used = [p \in Procs |-> FALSE]
    /\ todo = [p \in Procs |-> <<>>]
    /\ counts = [p \in Procs |-> <<0, 0, 0>>]
    /\ listed = [p \in Procs |-> <<>>]
    /\ task = [p \in Procs |-> <<>>]
    /\ wg = [p \in Procs |-> 0]

InitCalls ==
    /\ store = {}
    /\ hooks = [r \in Repos |-> <<>>]
    /\ scmType \in ProjectScmTypes
    /\ nextID = FirstID
    /\ InitIdle

Init == InitCalls /\ stats = NoStats /\ prov = NoProv

Step(p) ==
    \/ CreateCheck(p)
    \/ CreateWebhookStep(p)
    \/ CreateSonarStep(p)
    \/ CreateStoreStep(p)
    \/ CreateDeferStep(p)
    \/ UpdateLoad(p)
    \/ UpdateDeleteStep(p)
    \/ UpdateCreateStep(p)
    \/ UpdateRollbackStep(p)
    \/ UpdateSonarStep(p)
    \/ UpdateStoreStep(p)
    \/ DeleteLoad(p)
    \/ DeleteStoreStep(p)
    \/ DeleteWebhookStep(p)
    \/ DeleteSonarStep(p)
    \/ ClearLoad(p)
    \/ ClearNext(p)
    \/ GetLoad(p)
    \/ ListLoad(p)
    \/ ListSpawn(p)
    \/ \E i \in 1..MaxCalls : TaskRun(p, i)
    \/ ListWait(p)
    \/ Return(p)

\* One caller at a time.
Next == Step(1)

Spec == Init /\ [][Next]_vars

\* The steps of UpdatePipeline alone.
UpdateStep(p) ==
    \/ UpdateLoad(p)
    \/ UpdateDeleteStep(p)
    \/ UpdateCreateStep(p)
    \/ UpdateRollbackStep(p)
    \/ UpdateSonarStep(p)
    \/ UpdateStoreStep(p)
    \/ Return(p)

\* Two callers on a Gitlab project, their handlers interleaved: the first makes
\* any call, the second calls UpdatePipeline.
InitConc == Init /\ scmType = "Gitlab"

NextConc == Step(1) \/ UpdateStep(2)

SpecConc == InitConc /\ [][NextConc]_vars

\* The steps of one CreatePipeline call.
CreateOnce(p) ==
    \/ CreateCheck(p)
    \/ CreateWebhookStep(p)
    \/ CreateSonarStep(p)
    \/ CreateStoreStep(p)
    \/ CreateDeferStep(p)

\* Two callers on a Gitlab project, each calling CreatePipeline once, their
\* steps interleaved.
NextCreate == CreateOnce(1) \/ CreateOnce(2)

SpecCreate == InitConc /\ [][NextCreate]_vars

\* The statistics computation alone, on every range and every list of records.
InitStats ==
    /\ InitCalls
    /\ scmType = "Gitlab"
    /\ \E start \in Times, end \in Times, records \in RecordInputs :
         stats = [start |-> start, end |-> end, records |-> records, asked |-> FALSE, result |-> Nil]
    /\ prov = NoProv

NextStats == ComputeStats

SpecStats == InitStats /\ [][NextStats]_vars

\* The provider alone: CreateWebHook for every trigger, DeleteWebHook on every
\* list of hooks.
InitProvider ==
    /\ InitCalls
    /\ scmType = "Gitlab"
    /\ stats = NoStats
    /\ \/ \E trigger \in TriggerInputs, hs \in HookInputs, out \in CreateOutcomes :
            /\ Len(hs) <= 1
            /\ prov = [fn |-> "CreateWebHook", hs |-> hs, url |-> generateWebhookURL("Gitlab", FirstID),
                       trigger |-> trigger, out |-> out, result |-> Nil]
       \/ \E hs \in HookInputs, url \in DeleteURLs, out \in DeleteOutcomes :
            prov = [fn |-> "DeleteWebHook", hs |-> hs, url |-> url,
                    trigger |-> Nil, out |-> out, result |-> Nil]

NextProvider == ApplyCreateWebHook \/ ApplyDeleteWebHook

SpecProvider == InitProvider /\ [][NextProvider]_vars

\* The stores a listing starts from: no pipeline, one, or two of the project,
\* as FindPipelinesByProjectID reads them.
StoredInputs ==
    LET a == Pipeline(FirstID, <<"build">>, "Build", "alice", Build("r2", "", Nil),
                      Nil, "d1", ProjectID, "created")
        b == Pipeline(FirstID + 1, <<"deploy">>, "", "bob", Build("r2", "", Nil),
                      Nil, "d1", ProjectID, "created")
    IN  {{}, {a}, {a, b}}

\* ListPipelines alone on a store that holds pipelines, its goroutines
\* interleaved query by query.
InitTasks ==
    /\ store \in StoredInputs
    /\ hooks = [r \in Repos |-> <<>>]
    /\ scmType = "Gitlab"
    /\ nextID = FirstID + Cardinality(store)
    /\ InitIdle
    /\ stats = NoStats
    /\ prov = NoProv

NextTasks ==
    \/ ListLoad(1)
    \/ ListSpawn(1)
    \/ \E i \in 1..2, k \in 1..3 : TaskQuery(1, i, k)
    \/ ListWait(1)
    \/ Return(1)

SpecTasks == InitTasks /\ [][NextTasks]_vars


\* ----------------------------------------------------------- properties

\* The log entries of caller p that are calls of this name.
CallIdx(p, name) == {i \in 1..Len(log[p]) : log[p][i].call = name}

\* The log entries of caller p in which createWebhook called the provider: to
\* create a webhook, or to look up the repository of an SVN post-commit trigger.
CreateIdx(p) == CallIdx(p, "CreateWebHook") \cup CallIdx(p, "RetrieveRepoInfo")

FirstCreate(p) == CHOOSE i \in CreateIdx(p) : \A j \in CreateIdx(p) : i <= j

\* The events of the sub-triggers that are set in a stored trigger.
TriggerEvents(pipeline) ==
    {e \in {"Push", "TagRelease", "PullRequest", "PullRequestComment"} :
        pipeline.AutoTrigger[1][e]}

RecordsWebhook(pipeline) ==
    HasSCMTrigger(pipeline) /\ pipeline.AutoTrigger[1].Webhook # <<>>

\* The new webhook of an UpdatePipeline call could not be created.
NewWebhookFailed(p) ==
    /\ op[p] = "Update"
    /\ CreateIdx(p) # {}
    /\ log[p][FirstCreate(p)].err # NoErr

\* C1: when UpdatePipeline cannot create the new webhook, it returns the error
\* of that creation (permission-denied for a 403 on a Gitlab repository or a
\* 404 on a Github one, the provider's error otherwise) whatever the rollback
\* answers, it makes at most one more call, the store is not written and still
\* holds the pipeline as loaded; for a loaded pipeline with a webhook trigger
\* that one call is CreateWebHook on the old repository with the old identity,
\* the recorded URL and the events of the old trigger.
C1_RollbackOnCreateFailure ==
    \A p \in Procs :
      (pc[p] = "done" /\ NewWebhookFailed(p)) =>
        LET l == log[p]
            i == FirstCreate(p)
            old == loaded[p]
            type == arg[p].Build[1].MainRepo.Type
        IN  /\ ret[p] = l[i].err
            /\ ret[p] = IF \/ type = "Gitlab" /\ l[i].out = "403 Forbidden"
                           \/ type = "Github" /\ l[i].out = "404 Not Found"
                        THEN ErrPermissionDenied
                        ELSE l[i].out
            /\ Len(l) <= i + 1
            /\ CallIdx(p, "StoreUpdate") = {}
            /\ old \in store
            /\ IF WantsWebhook(old, scmType)
               THEN /\ Len(l) = i + 1
                    /\ l[i + 1].call = "CreateWebHook"
                    /\ l[i + 1].repo = old.Build[1].MainRepo.Url
                    /\ l[i + 1].id = old.ID
                    /\ l[i + 1].url = old.AutoTrigger[1].Webhook
                    /\ l[i + 1].events = TriggerEvents(old)
               ELSE \A j \in CallIdx(p, "CreateWebHook") : j <= i

\* An update whose new webhook failed with one error and whose rollback, on
\* another repository, failed with another.
C1_Witness ==
    \E p \in Procs :
      /\ pc[p] = "done"
      /\ NewWebhookFailed(p)
      /\ WantsWebhook(loaded[p], scmType)
      /\ ret[p] = ErrPermissionDenied
      /\ Len(log[p]) = FirstCreate(p) + 1
      /\ log[p][Len(log[p])].err # NoErr
      /\ log[p][Len(log[p])].err # ret[p]
      /\ log[p][Len(log[p])].repo # log[p][FirstCreate(p)].repo

\* C2: in an UpdatePipeline on a pipeline that records a webhook URL, every
\* CreateWebHook call comes after the DeleteWebHook call for the recorded URL on
\* the old repository; when that deletion answers an error the handler has
\* returned that error and made no other call (no CreateWebHook, no store write).
C2_DeleteBeforeCreate ==
    \A p \in Procs :
      (op[p] = "Update" /\ RecordsWebhook(loaded[p])) =>
        LET l == log[p]
            old == loaded[p]
        IN  /\ \A j \in CallIdx(p, "CreateWebHook") :
                 \E i \in CallIdx(p, "DeleteWebHook") :
                    /\ i < j
                    /\ l[i].url = old.AutoTrigger[1].Webhook
                    /\ l[i].repo = old.Build[1].MainRepo.Url
            /\ \A i \in CallIdx(p, "DeleteWebHook") :
                 l[i].err # NoErr =>
                    /\ pc[p] = "done"
                    /\ ret[p] = l[i].err
                    /\ i = Len(l)
                    /\ CallIdx(p, "CreateWebHook") = {}
                    /\ CallIdx(p, "StoreUpdate") = {}
                    /\ old \in store

\* An update that removed the old webhook and then created the new one.
C2_Witness ==
    \E p \in Procs :
      /\ op[p] = "Update"
      /\ RecordsWebhook(loaded[p])
      /\ \E i \in CallIdx(p, "DeleteWebHook"), j \in CallIdx(p, "CreateWebHook") : i < j

\* An update whose removal of the old webhook failed.
C2_WitnessDeleteFailed ==
    \E p \in Procs :
      /\ op[p] = "Update"
      /\ RecordsWebhook(loaded[p])
      /\ \E i \in CallIdx(p, "DeleteWebHook") : log[p][i].err # NoErr

\* ------------------------------------------- stored webhook and provider

\* No handler is part-way through.
Quiescent == \A p \in Procs : pc[p] \in {"idle", "done"}

\* Whether a hook URL is the callback URL of the pipeline with this identity.
NamesPipeline(url, id) ==
    HasPrefix(url, TrimSuffixSlash(CallbackEnv) \o <<ToString(id)>>)

\* The provider's registrations for the pipeline with this identity.
HooksFor(id) ==
    {x \in Repos \X (1..MaxCalls) :
        /\ x[2] <= Len(hooks[x[1]])
        /\ NamesPipeline(hooks[x[1]][x[2]].URL, id)}

RegisteredURLs(id) == {hooks[x[1]][x[2]].URL : x \in HooksFor(id)}

\* C3: whenever no handler is part-way through, the webhook URL a stored
\* pipeline records is the URL registered with the provider for it, and the
\* pipeline records none exactly when none is registered.
C3_StoredWebhookIsRegistered ==
    Quiescent =>
      \A e \in store :
        RegisteredURLs(e.ID) =
            IF RecordsWebhook(e) THEN {e.AutoTrigger[1].Webhook} ELSE {}

\* C4: whenever no handler is part-way through, the provider holds at most one
\* registration for any pipeline.
C4_AtMostOneRegistration ==
    Quiescent => \A id \in FirstID..(FirstID + MaxCalls) : Cardinality(HooksFor(id)) <= 1

\* ---------------------------------------------------------- CreatePipeline

\* CreatePipeline returned an error after its webhook was created.
FailedAfterWebhook(p) ==
    /\ pc[p] = "done"
    /\ op[p] = "Create"
    /\ ret[p] # NoErr
    /\ \E i \in CallIdx(p, "CreateWebHook") : log[p][i].err = NoErr

CreatedHook(p) ==
    CHOOSE i \in CallIdx(p, "CreateWebHook") : log[p][i].err = NoErr

\* The last call of caller p that is not a DeleteWebHook: the step that failed.
FailingStep(p) ==
    CHOOSE i \in 1..Len(log[p]) :
        /\ log[p][i].call # "DeleteWebHook"
        /\ \A j \in (i + 1)..Len(log[p]) : log[p][j].call = "DeleteWebHook"

\* C5 as stated: whenever CreatePipeline returns an error after its webhook was
\* created, the provider holds no registration for that pipeline and the error
\* returned is the one of the failing step.
C5_NoOrphanWebhook ==
    \A p \in Procs :
      FailedAfterWebhook(p) =>
        /\ HooksFor(log[p][CreatedHook(p)].id) = {}
        /\ ret[p] = log[p][FailingStep(p)].err

\* C5 amended: whenever CreatePipeline returns an error after its webhook was
\* created, the failing step was a quality-gate or store step, the error
\* returned is that step's, the last call made is the one DeleteWebHook call of
\* the handler, for the created URL on the same repository, nothing was stored
\* under the identity, and the provider holds no registration for the pipeline
\* when both provider calls of that deletion went through.
C5_TeardownAttempted ==
    \A p \in Procs :
      FailedAfterWebhook(p) =>
        LET l == log[p]
            i == CreatedHook(p)
            n == Len(l)
        IN  /\ CallIdx(p, "DeleteWebHook") = {n}
            /\ l[n].repo = l[i].repo
            /\ l[n].url = l[i].url
            /\ i < n - 1
            /\ l[n - 1].call \in {"GetIntegration", "SonarCreateProject",
                                  "SonarSetQualityGate", "StoreCreate"}
            /\ l[n - 1].err # NoErr
            /\ ret[p] = l[n - 1].err
            /\ \A e \in store : e.ID # l[i].id
            /\ l[n].out = "ok" => HooksFor(l[i].id) = {}

\* A create that failed at the store after its webhook was created, and whose
\* teardown removed the webhook.
C5_Witness ==
    \E p \in Procs :
      /\ FailedAfterWebhook(p)
      /\ log[p][Len(log[p])].call = "DeleteWebHook"
      /\ log[p][Len(log[p])].out = "ok"
      /\ log[p][Len(log[p]) - 1].call = "StoreCreate"
      /\ HooksFor(log[p][CreatedHook(p)].id) = {}

\* A create that failed after its webhook was created and whose teardown failed.
C5_WitnessTeardownFailed ==
    \E p \in Procs :
      /\ FailedAfterWebhook(p)
      /\ log[p][Len(log[p])].call = "DeleteWebHook"
      /\ log[p][Len(log[p])].out # "ok"
      /\ HooksFor(log[p][CreatedHook(p)].id) # {}

\* C6: CreatePipeline with Name and Alias both empty returns ValidationFailed
\* at once and has made no call at all: no lookup, no webhook call, no
\* quality-gate call and no store write.
C6_EmptyNameAndAlias ==
    \A p \in Procs :
      (op[p] = "Create" /\ arg[p].Name = <<>> /\ arg[p].Alias = "") =>
        /\ pc[p] = "done"
        /\ ret[p] = ErrValidationFailed
        /\ log[p] = <<>>

C6_Witness ==
    \E p \in Procs :
      /\ pc[p] = "done"
      /\ op[p] = "Create"
      /\ arg[p].Name = <<>>
      /\ arg[p].Alias = ""
      /\ arg[p].Build # Nil
      /\ store # {}

\* C7: when the name CreatePipeline looks up is used by a pipeline of the
\* project, a call that derived the name from the alias goes on under another
\* name, and a call that was given the name has returned AlreadyExists without
\* a webhook call or a store write.
C7_NameCollision ==
    \A p \in Procs :
      (op[p] = "Create" /\ used[p]) =>
        IF arg[p].Name = <<>>
        THEN np[p].Name # LookupName(arg[p])
        ELSE /\ pc[p] = "done"
             /\ ret[p] = ErrAlreadyExist
             /\ CreateIdx(p) = {}
             /\ CallIdx(p, "StoreCreate") = {}

\* The callback URL of a pipeline under the project's SCM type, written out.
ExpectedWebhookURL(id) ==
    <<"http://cyclone", ToString(id),
      IF scmType = "Gitlab" THEN "gitlabwebhook" ELSE "svnwebhook">>

\* C8: when CreatePipeline of a pipeline with an SCM webhook trigger has
\* returned without error, it made exactly one CreateWebHook call, with the URL
\* built from the callback base, the new identity and the lower-cased SCM type,
\* then exactly one store write; the store holds the pipeline under the
\* identity of the URL, with that URL as its recorded webhook.
C8_CreateRegistersThenPersists ==
    \A p \in Procs :
      (pc[p] = "done" /\ op[p] = "Create" /\ ret[p] = NoErr
         /\ WantsWebhook(arg[p], scmType)) =>
        LET l == log[p]
        IN  /\ Cardinality(CallIdx(p, "CreateWebHook")) = 1
            /\ Cardinality(CallIdx(p, "StoreCreate")) = 1
            /\ \A i \in CallIdx(p, "CreateWebHook"), j \in CallIdx(p, "StoreCreate") :
                 /\ i < j
                 /\ j = Len(l)
                 /\ l[i].err = NoErr
                 /\ l[j].err = NoErr
                 /\ l[i].id # 0
                 /\ l[i].id = fresh[p]
                 /\ l[i].url = ExpectedWebhookURL(l[i].id)
                 /\ l[i].events = TriggerEvents(arg[p])
                 /\ l[j].id = l[i].id
                 /\ {e \in store : e.ID = l[i].id} = {np[p]}
                 /\ np[p].AutoTrigger[1].Webhook = l[i].url

\* A successful create, under either SCM type, of a pipeline that came with an
\* identity of its own.
C8_Witness ==
    \E p \in Procs :
      /\ pc[p] = "done"
      /\ op[p] = "Create"
      /\ ret[p] = NoErr
      /\ WantsWebhook(arg[p], scmType)
      /\ arg[p].ID # 0
      /\ np[p] \in store

C8_WitnessSVN ==
    \E p \in Procs :
      /\ pc[p] = "done"
      /\ op[p] = "Create"
      /\ ret[p] = NoErr
      /\ WantsWebhook(arg[p], scmType)
      /\ scmType = "SVN"

\* ---------------------------------------------------------- UpdatePipeline

\* C9: in every UpdatePipeline call, the pipeline handed to the store write has
\* the ID, Name, ProjectID and CreationTime of the pipeline as loaded, whatever
\* the new pipeline carries there; every CreateWebHook call of the update uses
\* the loaded ID and the URL built from it.
C9_UpdateKeepsIdentity ==
    \A p \in Procs :
      op[p] = "Update" =>
        /\ \A i \in CallIdx(p, "CreateWebHook") :
             /\ log[p][i].id = loaded[p].ID
             /\ log[p][i].url = ExpectedWebhookURL(loaded[p].ID)
        /\ \A i \in CallIdx(p, "StoreUpdate") :
             /\ log[p][i].id = loaded[p].ID
             /\ cur[p].ID = loaded[p].ID
             /\ cur[p].Name = loaded[p].Name
             /\ cur[p].ProjectID = loaded[p].ProjectID
             /\ cur[p].CreationTime = loaded[p].CreationTime

\* An update that was passed another ID, Name, ProjectID and creation time,
\* created a webhook and wrote the store.
C9_Witness ==
    \E p \in Procs :
      /\ pc[p] = "done"
      /\ op[p] = "Update"
      /\ ret[p] = NoErr
      /\ arg[p].ID # 0
      /\ arg[p].ID # loaded[p].ID
      /\ arg[p].Name # loaded[p].Name
      /\ arg[p].ProjectID # loaded[p].ProjectID
      /\ arg[p].CreationTime # loaded[p].CreationTime
      /\ CallIdx(p, "CreateWebHook") # {}
      /\ CallIdx(p, "StoreUpdate") # {}

\* C10: an UpdatePipeline call whose new pipeline has no Build returns a result
\* or an error; when an update has written the store, the stored pipeline has
\* the Build as loaded if none was passed, the Owner as loaded if an empty one
\* was passed, and the Alias, Description, Notification and Annotations passed.
C10_UpdateWithoutBuild ==
    \A p \in Procs :
      (pc[p] = "done" /\ op[p] = "Update") =>
        /\ arg[p].Build = Nil => ret[p] # Panic
        /\ (\E i \in CallIdx(p, "StoreUpdate") : log[p][i].err = NoErr) =>
             /\ cur[p] \in store
             /\ cur[p].Build = IF arg[p].Build = Nil THEN loaded[p].Build ELSE arg[p].Build
             /\ cur[p].Owner = IF arg[p].Owner = "" THEN loaded[p].Owner ELSE arg[p].Owner
             /\ cur[p].Alias = arg[p].Alias
             /\ cur[p].Description = arg[p].Description
             /\ cur[p].Notification = arg[p].Notification
             /\ cur[p].Annotations = arg[p].Annotations

\* ---------------------------------------------------------- DeletePipeline

\* Caller p made a call of this name that failed.
CallFailed(p, name) == \E i \in CallIdx(p, name) : log[p][i].err # NoErr

\* C11: a DeletePipeline that got as far as deleting returns an error when the
\* deletion of the records fails (the stored pipeline is then not deleted, the
\* store is not even asked) and when the deletion of the stored pipeline fails;
\* when both succeed it returns nil and the store no longer holds the
\* pipeline, whatever the removal of the log folder, of the webhook and of the
\* quality-gate project answered.
C11_DeleteReportsPrimaryFailures ==
    \A p \in Procs :
      (pc[p] = "done" /\ op[p] = "Delete" /\ CallIdx(p, "ClearRecords") # {}) =>
        /\ CallFailed(p, "ClearRecords") =>
             /\ ret[p] = ErrDeleteRecords
             /\ CallIdx(p, "StoreDelete") = {}
             /\ loaded[p] \in store
        /\ CallFailed(p, "StoreDelete") =>
             /\ ret[p] = ErrDeleteStore
             /\ loaded[p] \in store
        /\ (~CallFailed(p, "ClearRecords") /\ ~CallFailed(p, "StoreDelete")) =>
             /\ ret[p] = NoErr
             /\ CallIdx(p, "StoreDelete") # {}
             /\ \A e \in store : e.ID # loaded[p].ID

\* A delete that returned nil although the log folder, the webhook and the
\* quality-gate project could not be removed.
C11_Witness ==
    \E p \in Procs :
      /\ pc[p] = "done"
      /\ op[p] = "Delete"
      /\ ret[p] = NoErr
      /\ CallFailed(p, "RemoveLogs")
      /\ \E i \in CallIdx(p, "DeleteWebHook") : log[p][i].out # "ok"

\* ------------------------------------------------ ClearPipelinesOfProject

\* The pipelines whose stored entity caller p has deleted.
DeletedIDs(p) == {log[p][i].id : i \in {j \in CallIdx(p, "StoreDelete") : log[p][j].err = NoErr}}

\* Caller p made this call for pipeline id.
CalledFor(p, name, id) == \E i \in CallIdx(p, name) : log[p][i].id = id

\* C12: for every pipeline whose stored entity ClearPipelinesOfProject has
\* deleted, it has deleted the execution records and has removed the log
\* folder, as DeletePipeline does.
C12_ClearDeletesAsDelete ==
    \A p \in Procs :
      op[p] \in {"Clear", "Delete"} =>
        \A id \in DeletedIDs(p) :
          /\ \E i \in CallIdx(p, "ClearRecords") : log[p][i].id = id /\ log[p][i].err = NoErr
          /\ CalledFor(p, "RemoveLogs", id)

\* ------------------------------------------- GetPipeline, ListPipelines

\* Caller p's GetPipeline or ListPipelines has returned the pipelines it read.
Returned(p, name) ==
    /\ pc[p] = "done"
    /\ op[p] = name
    /\ log[p] # <<>>
    /\ log[p][1].call = "Find"
    /\ log[p][1].err = NoErr

SomePositive(cnt) == \E k \in 1..3 : cnt[k] > 0

\* C13: when a count is positive and ListPipelines has returned, one task was
\* started for each listed pipeline, every task has completed and the wait
\* group is back at zero: no task is left that could write to a returned
\* pipeline.
C13_ListWaitsForTasks ==
    \A p \in Procs :
      (Returned(p, "List") /\ SomePositive(counts[p])) =>
        /\ Len(task[p]) = Len(listed[p])
        /\ \A i \in DOMAIN task[p] : task[p][i] = "done"
        /\ wg[p] = 0

C13_Witness ==
    \E p \in Procs :
      /\ Returned(p, "List")
      /\ SomePositive(counts[p])
      /\ Len(listed[p]) >= 2
      /\ \A i \in DOMAIN task[p] : task[p][i] = "done"

\* The attachment that the k-th query fills.
Attachment(pipeline, k) ==
    IF k = 1 THEN pipeline.RecentRecords
    ELSE IF k = 2 THEN pipeline.RecentSuccessRecords
    ELSE pipeline.RecentFailedRecords

\* The k-th record queries that caller p made for pipeline id.
QueryIdx(p, id, k) == {i \in CallIdx(p, RecentCalls[k]) : log[p][i].id = id}

\* C14: when GetPipeline or ListPipelines has read its pipelines and returned,
\* it returns no error; for each returned pipeline each of the three record
\* queries was made once when its count is positive and not at all otherwise
\* (so none is made when no count is positive), and an attachment is filled
\* exactly when its query was made and succeeded, whatever the other queries
\* answered.
C14_RecentRecordQueries ==
    \A p \in Procs :
      (Returned(p, "Get") \/ Returned(p, "List")) =>
        /\ ret[p] = NoErr
        /\ \A i \in DOMAIN listed[p], k \in 1..3 :
             LET q == QueryIdx(p, listed[p][i].ID, k)
             IN  /\ Cardinality(q) = IF counts[p][k] > 0 THEN 1 ELSE 0
                 /\ Attachment(listed[p][i], k) =
                      IF \E j \in q : log[p][j].err = NoErr
                      THEN Records(k, counts[p][k]) ELSE Nil
        /\ ~SomePositive(counts[p]) =>
             \A k \in 1..3 : CallIdx(p, RecentCalls[k]) = {}

\* A returned pipeline whose success-status query failed and whose
\* failed-status query was still made and attached.
C14_Witness ==
    \E p \in Procs :
      /\ Returned(p, "List")
      /\ ret[p] = NoErr
      /\ \E i \in DOMAIN listed[p] :
           /\ \E j \in QueryIdx(p, listed[p][i].ID, 2) : log[p][j].err # NoErr
           /\ listed[p][i].RecentSuccessRecords = Nil
           /\ listed[p][i].RecentFailedRecords # Nil

\* The same for GetPipeline.
C14_WitnessGet ==
    \E p \in Procs :
      /\ Returned(p, "Get")
      /\ \E j \in QueryIdx(p, listed[p][1].ID, 2) : log[p][j].err # NoErr
      /\ listed[p][1].RecentFailedRecords # Nil

\* ------------------------------------------------------------ statistics

\* The statistics that were computed.
Statistics == stats.result[1]

\* The midnight that begins the calendar day of t.
CalendarDay(t) == t - (t % Day)

\* The number of records with this status.
CountOf(status) == Cardinality({i \in DOMAIN stats.records : stats.records[i].Status = status})

RECURSIVE SumDetails(_)
SumDetails(details) ==
    IF details = <<>> THEN 0
    ELSE Head(details).Success + Head(details).Failed + Head(details).Aborted + SumDetails(Tail(details))

\* C15: for a range with start <= end the details are the calendar days from
\* the day of start to the day of end, one each, in increasing order and 86400
\* apart, and their number is (normalizedEnd - normalizedStart)/86400 + 1.
C15_OneBucketPerDay ==
    (stats.asked /\ stats.start <= stats.end) =>
      LET details == Statistics.Details
      IN  /\ Len(details) = (CalendarDay(stats.end) - CalendarDay(stats.start)) \div Day + 1
          /\ \A i \in DOMAIN details :
               details[i].Timestamp = CalendarDay(stats.start) + (i - 1) * Day
          /\ Len(details) =
               (formatTimeToDay(stats.end) - formatTimeToDay(stats.start)) \div Day + 1

\* C16: the counts of all details together are at most Overview.Total, and equal
\* to it when every record is a Success, a Failed or an Aborted one.
C16_DetailsSumToTotal ==
    stats.asked =>
      /\ SumDetails(Statistics.Details) <= Statistics.Overview.Total
      /\ (\A i \in DOMAIN stats.records : stats.records[i].Status \in {"Success", "Failed", "Aborted"})
            => SumDetails(Statistics.Details) = Statistics.Overview.Total

\* C17: Overview.Total is the number of records and each status counter of the
\* overview is the number of records of that status, whatever the range; a
\* record of another status is in Total only.
C17_OverviewCounts ==
    stats.asked =>
      /\ Statistics.Overview.Total = Len(stats.records)
      /\ Statistics.Overview.Success = CountOf("Success")
      /\ Statistics.Overview.Failed = CountOf("Failed")
      /\ Statistics.Overview.Aborted = CountOf("Aborted")

\* Three records, one of a status that is not counted and one of a day that has
\* no detail.
C17_Witness ==
    /\ stats.asked
    /\ Len(stats.records) = MaxRecords
    /\ CountOf("Running") = 1
    /\ \E i \in DOMAIN stats.records :
         /\ stats.records[i].Status = "Failed"
         /\ \A j \in DOMAIN Statistics.Details :
              Statistics.Details[j].Timestamp # formatTimeToDay(stats.records[i].StartTime)
    /\ Statistics.Overview.Failed = 1

\* C18: SuccessRatio is "0.00%" when there is no record; otherwise it is the
\* hundredth of a percent nearest to Success/Total*100, between 0 and 100,
\* written with two decimals and a percent sign: "66.67%" for 2 of 3.
C18_SuccessRatio ==
    stats.asked =>
      LET success == CountOf("Success")
          total == Len(stats.records)
          ratio == Statistics.Overview.SuccessRatio
      IN  /\ total = 0 => ratio = "0.00%"
          /\ total # 0 =>
               \E h \in {(10000 * success) \div total, (10000 * success) \div total + 1} :
                 /\ 0 <= h /\ h <= 10000
                 /\ 2 * h * total - 20000 * success <= total
                 /\ 20000 * success - 2 * h * total <= total
                 /\ ratio = FormatPercent(h)
          /\ (success = 2 /\ total = 3) => ratio = "66.67%"
          /\ (success = 1 /\ total = 3) => ratio = "33.33%"
          /\ (success = total /\ total # 0) => ratio = "100.00%"
          /\ success = 0 => ratio = "0.00%"

C18_Witness ==
    /\ stats.asked
    /\ CountOf("Success") = 2
    /\ Len(stats.records) = 3
    /\ Statistics.Overview.SuccessRatio = "66.67%"

C18_WitnessEmpty ==
    /\ stats.asked
    /\ stats.records = <<>>
    /\ Statistics.Overview.SuccessRatio = "0.00%"

\* ------------------------------------------------------ webhook teardown

\* C19: DeletePipeline, ClearPipelinesOfProject and the cleanup of a failed
\* CreatePipeline call DeleteWebHook only with the non-empty webhook URL that
\* the pipeline's trigger records.
C19_DeleteOnlyRecordedWebhook ==
    \A p \in Procs :
      op[p] \in {"Create", "Delete", "Clear"} =>
        \A i \in CallIdx(p, "DeleteWebHook") : log[p][i].url # <<>>

\* ------------------------------------------------------- createWebhook

\* Caller p's createWebhook for the pipeline passed in was rejected by the
\* provider's CreateWebHook.
CreateRejected(p) ==
    /\ op[p] \in {"Create", "Update"}
    /\ CreateIdx(p) # {}
    /\ log[p][FirstCreate(p)].call = "CreateWebHook"
    /\ log[p][FirstCreate(p)].err # NoErr

\* The error the provider returned in that call.
ProviderErr(p) ==
    LET e == log[p][FirstCreate(p)]
    IN  ProviderCreateWebHook(<<>>, e.url, e.events, e.out).err

\* The failure has the status that stands for a denied permission with the
\* kind of repository the pipeline names.
KnownSignature(p) ==
    \/ np[p].Build[1].MainRepo.Type = "Gitlab" /\ ProviderErr(p) = "403 Forbidden"
    \/ np[p].Build[1].MainRepo.Type = "Github" /\ ProviderErr(p) = "404 Not Found"

\* C20: when the provider rejects the webhook, createWebhook returns the
\* permission-denied error exactly when the failure is a 403 of a Gitlab
\* repository or a 404 of a Github one, and the provider's error otherwise; the
\* Webhook field of the trigger stays as it was passed in.
C20_PermissionDeniedOnSignature ==
    \A p \in Procs :
      CreateRejected(p) =>
        /\ log[p][FirstCreate(p)].err =
             IF KnownSignature(p) THEN ErrPermissionDenied ELSE ProviderErr(p)
        /\ np[p].AutoTrigger[1].Webhook = arg[p].AutoTrigger[1].Webhook

\* ------------------------------------------------------------- provider

\* The result of the call made to the provider.
ProvResult == prov.result[1]

\* CreateWebHook was called and has registered a hook.
Registered ==
    /\ prov.fn = "CreateWebHook"
    /\ prov.result # Nil
    /\ ProvResult.err = NoErr
    /\ Len(ProvResult.hooks) = Len(prov.hs) + 1

\* The hook that CreateWebHook has registered.
NewHook == ProvResult.hooks[Len(ProvResult.hooks)]

\* C21: for every combination of the four sub-triggers, a CreateWebHook that the
\* provider accepts registers one hook whose events are exactly the event types
\* of the sub-triggers that are set and whose GitLab flags are exactly the
\* matching ones, push events being enabled only with the push sub-trigger;
\* the hooks held before stay as they were.
C21_EventsOfSubTriggers ==
    (prov.fn = "CreateWebHook" /\ prov.result # Nil) =>
      LET t == prov.trigger[1]
          some == t.Push \/ t.TagRelease \/ t.PullRequest \/ t.PullRequestComment
      IN  /\ Registered <=> (some /\ prov.out = "ok")
          /\ Registered =>
               /\ SubSeq(ProvResult.hooks, 1, Len(prov.hs)) = prov.hs
               /\ NewHook.URL = prov.url
               /\ \A e \in {"Push", "TagRelease", "PullRequest", "PullRequestComment"} :
                    e \in NewHook.Events <=> t[e]
               /\ NewHook.Options.PushEvents = t.Push
               /\ NewHook.Options.TagPushEvents = t.TagRelease
               /\ NewHook.Options.MergeRequestsEvents = t.PullRequest
               /\ NewHook.Options.NoteEvents = t.PullRequestComment
          /\ ~Registered => ProvResult.hooks = prov.hs

\* A hook registered for a tag-release and a pull-request trigger without push.
C21_Witness ==
    /\ Registered
    /\ ~prov.trigger[1].Push
    /\ prov.trigger[1].TagRelease
    /\ prov.trigger[1].PullRequest
    /\ ~NewHook.Options.PushEvents
    /\ NewHook.Options.TagPushEvents

\* DeleteWebHook was called and has returned.
DeleteCalled == prov.fn = "DeleteWebHook" /\ prov.result # Nil

\* The hooks of the repository that DeleteWebHook's URL is a prefix of.
Matching == {i \in 1..Len(prov.hs) : HasPrefix(prov.hs[i].URL, prov.url)}

\* C22: DeleteWebHook removes at most one hook, the first whose URL starts with
\* the URL given, and leaves the others as they were and in their order; when
\* the hooks could be listed and none matches it changes nothing and returns no
\* error; when it returns no error and a hook matched, the first matching hook
\* is gone.
C22_DeleteFirstMatch ==
    DeleteCalled =>
      LET first == CHOOSE i \in Matching : \A j \in Matching : i <= j
          without == SubSeq(prov.hs, 1, first - 1) \o SubSeq(prov.hs, first + 1, Len(prov.hs))
      IN  /\ ProvResult.hooks \in {prov.hs} \cup (IF Matching = {} THEN {} ELSE {without})
          /\ (Matching = {} /\ prov.out # "listErr") =>
               (ProvResult.hooks = prov.hs /\ ProvResult.err = NoErr)
          /\ (Matching # {} /\ ProvResult.err = NoErr) => ProvResult.hooks = without

\* ------------------------------------------------- statistics, per record

\* The records of the request that start within the range and have a status
\* that is counted.
CountedInRange ==
    {i \in DOMAIN stats.records :
        /\ stats.start <= stats.records[i].StartTime
        /\ stats.records[i].StartTime <= stats.end
        /\ stats.records[i].Status \in {"Success", "Failed", "Aborted"}}

\* The details that carry the calendar day of the time t.
BucketsOf(t) ==
    {j \in DOMAIN Statistics.Details : Statistics.Details[j].Timestamp = CalendarDay(t)}

\* The number of records of this status that start on the day of this stamp.
OnDay(stamp, status) ==
    Cardinality({i \in DOMAIN stats.records :
                    /\ CalendarDay(stats.records[i].StartTime) = stamp
                    /\ stats.records[i].Status = status})

\* C23: every record that starts within [start, end] with the status Success,
\* Failed or Aborted is counted in exactly one detail, the one of the calendar
\* day of its start time: there is one such detail, and every detail counts, for
\* each status, the records of its own day and no others.
C23_CountedInOwnDay ==
    stats.asked =>
      /\ \A i \in CountedInRange : Cardinality(BucketsOf(stats.records[i].StartTime)) = 1
      /\ CountedInRange # {} =>
           \A j \in DOMAIN Statistics.Details :
             LET d == Statistics.Details[j]
             IN  /\ d.Success = OnDay(d.Timestamp, "Success")
                 /\ d.Failed = OnDay(d.Timestamp, "Failed")
                 /\ d.Aborted = OnDay(d.Timestamp, "Aborted")

\* ------------------------------------------- deletePipeline, the cleanups

\* Caller p is past the deletePipeline of a pipeline that has both an SCM
\* trigger and a code-scan configuration, and has deleted its stored entity.
DeletedBoth(p) ==
    /\ pc[p] \in {"done", "cl_next"}
    /\ op[p] \in {"Delete", "Clear"}
    /\ cur[p].ID \in DeletedIDs(p)
    /\ HasSCMTrigger(cur[p])
    /\ cur[p].Build # Nil
    /\ cur[p].Build[1].CodeScan # Nil

\* C24: the two cleanups of deletePipeline are independent: whenever the stored
\* entity of a pipeline with an SCM trigger and a code-scan configuration was
\* deleted, the removal of its quality-gate project has been attempted (the
\* integration was at least looked up), whatever the webhook teardown answered.
C24_SonarCleanupAttempted ==
    \A p \in Procs :
      DeletedBoth(p) => CalledFor(p, "GetIntegration", cur[p].ID)

\* --------------------------------- ClearPipelinesOfProject, what it returns

\* Caller p's ClearPipelinesOfProject has returned.
Cleared(p) == pc[p] = "done" /\ op[p] = "Clear"

\* C25: ClearPipelinesOfProject returns nil only if the store holds no pipeline
\* of the project any more; it returns an error when the listing of the
\* pipelines fails and when the deletion of one pipeline fails.
C25_ClearReportsFailures ==
    \A p \in Procs :
      Cleared(p) =>
        /\ ret[p] = NoErr => \A e \in store : e.ProjectID # ProjectID
        /\ CallFailed(p, "ListPipelines") => ret[p] # NoErr
        /\ (CallFailed(p, "ClearRecords") \/ CallFailed(p, "StoreDelete")) => ret[p] # NoErr

\* ------------------------------------------ ListPipelines, the goroutines

\* What the three record queries that caller p made for pipeline id answered.
OutcomesOf(p, id) ==
    [k \in 1..3 |-> IF \E j \in QueryIdx(p, id, k) : log[p][j].err = NoErr THEN "ok" ELSE "storeErr"]

\* The pipelines of the project as the store lists them.
FromStore == ByID({e \in store : e.ProjectID = ProjectID})

\* When ListPipelines has returned with a positive count, the list holds the
\* pipelines of the store in the store's order, every query with a positive
\* count was made once for each of them, and each pipeline is what
\* assignRecentRecord alone yields for it with the answers its queries got.
ListedAsSequential ==
    \A p \in Procs :
      (Returned(p, "List") /\ SomePositive(counts[p])) =>
        /\ Len(listed[p]) = Len(FromStore)
        /\ \A i \in DOMAIN listed[p] :
             /\ \A k \in 1..3 :
                  Cardinality(QueryIdx(p, FromStore[i].ID, k)) = IF counts[p][k] > 0 THEN 1 ELSE 0
             /\ listed[p][i] =
                  assignRecentRecord(Listed(FromStore[i]), counts[p], OutcomesOf(p, FromStore[i].ID)).pl

\* While the goroutines run, an element of the list changes only in a step of
\* the goroutine of its own turn.
WritesOwnElement ==
    \A p \in Procs :
      \A i \in DOMAIN listed[p] :
        (pc[p] \in {"l_spawn", "l_wait"} /\ pc'[p] \in {"l_spawn", "l_wait"}
           /\ listed'[p][i] # listed[p][i]) =>
          /\ i \in DOMAIN task[p]
          /\ task'[p][i] # task[p][i]

\* C26: in ListPipelines every goroutine reads and writes only the element of
\* its own turn: however the queries of the goroutines interleave, the returned
\* list holds the pipelines of the store in the store's order, each with the
\* attachments a run of assignRecentRecord on it alone produces, and no element
\* is written by the goroutine of another turn.
C26_TasksWriteOwnElement == []ListedAsSequential /\ [][WritesOwnElement]_vars

\* A list of two pipelines has been returned, the queries of the two
\* goroutines interleaved, the first query answered for one pipeline and
\* failed for the other.
C26_Witness ==
    \E p \in Procs :
      /\ Returned(p, "List")
      /\ Len(listed[p]) = 2
      /\ listed[p][1].RecentRecords # Nil
      /\ listed[p][2].RecentRecords = Nil
      /\ listed[p][2].RecentFailedRecords # Nil
      /\ \E a, b, c \in DOMAIN log[p] :
           /\ a < b /\ b < c
           /\ log[p][a].id = listed[p][1].ID
           /\ log[p][b].id = listed[p][2].ID
           /\ log[p][c].id = listed[p][1].ID

\* ------------------------------------------------- names within a project

\* C27: whatever CreatePipeline calls were made on the project, with names
\* given, derived from the alias or re-slugified, no two stored pipelines of
\* the project have the same name.
C27_NamesUnique ==
    \A a, b \in store :
      (a.ProjectID = b.ProjectID /\ a.Name = b.Name) => a = b

====
